---------------------------- MODULE Spec2Model ----------------------------
(***************************************************************************)
(* A model of the wordfeud-solver board engine, lexicon index and row      *)
(* matcher.  Rows, words and racks are sequences of byte codes; the source *)
(* indexes them from 0, so At(s, i) reads the element the source calls     *)
(* s[i].                                                                   *)
(***************************************************************************)
EXTENDS Integers, Sequences, FiniteSets, TLC

VARIABLES
    wordlist,     \* Board.wordlist: the flattened trie in use
    horizontal,   \* Board.horizontal: 15 rows of 15 cells
    vertical,     \* Board.vertical: 15 columns of 15 cells
    rowdata,      \* Board.rowdata: <<vertical lines, horizontal lines>>
    save,         \* a caller's snapshot of horizontal() (find_best_scores: saved_state)
    saveV,        \* the vertical mirror at the time of the snapshot (history)
    saveRowdata,  \* the rowdata at the time of the snapshot (history)
    undo,         \* where the caller is in snapshot / play / restore
    call,         \* the last call made and its arguments
    ret,          \* what the last call returned
    nplays,       \* number of successful mutating plays so far
    m_row, m_rowdata, m_letters, m_pos,   \* inputs of the row matcher
    m_out         \* what the row matcher produced for them

vars == <<wordlist, horizontal, vertical, rowdata, save, saveV, saveRowdata,
          undo, call, ret, nplays, m_row, m_rowdata, m_letters, m_pos, m_out>>

boardVars == <<wordlist, horizontal, vertical, rowdata, save, saveV,
               saveRowdata, undo, nplays>>
matchVars == <<m_row, m_rowdata, m_letters, m_pos, m_out>>

---------------------------------------------------------------------------
(* Codes: tiles/codes.rs, tiles/tile.rs, tiles/letter.rs, tiles/cell.rs *)

N == 15
DIM == 16
EMPTY == 0
BLANK == 64
IS_WILDCARD == 64
LabelRange == 32

\* the source's s[i], i counted from 0
At(s, i) == s[i + 1]

\* code & LETTER_MASK
label(code) == code % LabelRange

\* code & IS_WILDCARD != 0
is_wildcard(code) == (code \div IS_WILDCARD) % 2 = 1

\* (code & LETTER_MASK) | IS_WILDCARD
wildcard_from_letter(code) == label(code) + IS_WILDCARD

\* Letter::is_blank
is_blank(letter) == letter = BLANK

\* Letter::from_tile: Letter::new(tile.label())
from_tile(tile) == label(tile)

\* Cell::to_letter: the cell without its wildcard flag
to_letter(cell) == label(cell)

\* Cell::is_empty / Cell::tile().is_none()
is_empty(cell) == cell = EMPTY

\* a remove that leaves the letter on the rack
remove_none(letters, pos) == letters

\* Letters::remove(pos): the rack without the letter at index pos
remove(letters, pos) ==
    [k \in 1..(Len(letters) - 1) |->
        IF k <= pos THEN letters[k] ELSE letters[k + 1]]

\* no letter counts as seen before
contains_never(letters, i, letter) == FALSE

\* letters[0..i].contains(&letter)
contains_before(letters, i, letter) ==
    \E k \in 1..i : letters[k] = letter

---------------------------------------------------------------------------
(* LabelSet: labelset.rs.  The bit mask is modelled as the set of its bits. *)

\* the number of larger labels in the set
index_of_larger(labels, l) == Cardinality({k \in labels : k > l})

\* LabelSet::index_of: the number of smaller labels in the set
index_of(labels, l) == Cardinality({k \in labels : k < l})

\* the labels of a set in ascending order (IteratorLabelSet)
RECURSIVE ascending(_)
ascending(labels) ==
    IF labels = {} THEN <<>>
    ELSE LET lo == CHOOSE k \in labels : \A j \in labels : k <= j
         IN  <<lo>> \o ascending(labels \ {lo})


---------------------------------------------------------------------------
(* TrieVec: wordlist/trievec.rs.  A node is [children, terminal]; children *)
(* is a sequence of <<label, node>> kept sorted by label.                  *)

trie_new == [children |-> <<>>, terminal |-> FALSE]

\* the first index i (from 0) with c <= children[i].label, else children.len()
next_pos(children, c) ==
    LET hits == {i \in 1..Len(children) : c <= children[i][1]}
    IN  IF hits = {} THEN Len(children)
        ELSE (CHOOSE i \in hits : \A j \in hits : i <= j) - 1

\* TrieVec::insert
RECURSIVE trie_insert(_, _)
trie_insert(t, key) ==
    IF key = <<>> THEN [t EXCEPT !.terminal = TRUE]
    ELSE LET c     == Head(key)
             np    == next_pos(t.children, c)
             found == np < Len(t.children) /\ At(t.children, np)[1] = c
             kids  == IF found THEN t.children
                      ELSE SubSeq(t.children, 1, np) \o <<<<c, trie_new>>>>
                           \o SubSeq(t.children, np + 1, Len(t.children))
             sub   == trie_insert(At(kids, np)[2], Tail(key))
         IN  [t EXCEPT !.children = [kids EXCEPT ![np + 1] = <<c, sub>>]]

\* Wordlist::from_words: insert the words one by one
RECURSIVE trie_of(_)
trie_of(words) ==
    IF words = <<>> THEN trie_new
    ELSE trie_insert(trie_of(SubSeq(words, 1, Len(words) - 1)),
                     words[Len(words)])

(* impl From<TrieVec<Label>> for Wordlist: breadth-first flattening.  The  *)
(* queue holds <<trie node, index of the parent, label of the edge>>.      *)
RECURSIVE flatten(_, _, _)
flatten(queue, i, wl) ==
    IF queue = <<>> THEN wl
    ELSE LET node   == Head(queue)[1]
             index  == Head(queue)[2]
             k      == Head(queue)[3]
             kids   == node.children
             ls     == {kids[j][1] : j \in 1..Len(kids)}
             pushed == [j \in 1..Len(kids) |-> <<kids[j][2], i, kids[j][1]>>]
             nodes1 == Append(wl.nodes, [start |-> 0, labels |-> ls])
             nodes2 == IF At(nodes1, index).start = 0
                       THEN [nodes1 EXCEPT ![index + 1].start = i]
                       ELSE nodes1
         IN  flatten(Tail(queue) \o pushed, i + 1,
                     [nodes      |-> nodes2,
                      labels     |-> Append(wl.labels, k),
                      terminal   |-> Append(wl.terminal, node.terminal),
                      all_labels |-> wl.all_labels \cup ls,
                      word_count |-> wl.word_count
                                     + (IF node.terminal THEN 1 ELSE 0),
                      node_count |-> wl.node_count + 1])

\* Wordlist::from_words
from_words(words) ==
    flatten(<<<<trie_of(words), 0, 0>>>>, 0,
            [nodes |-> <<>>, labels |-> <<>>, terminal |-> <<>>,
             all_labels |-> {}, word_count |-> 0, node_count |-> 0])

---------------------------------------------------------------------------
(* Wordlist: wordlist.rs *)

\* Option::None, where the code returns an Option of an index or a tile
None == -1

\* a get that follows the first edge of the node whatever the label
get_any(wl, i, l) ==
    LET nd == At(wl.nodes, i)
    IN  IF nd.labels # {} THEN nd.start ELSE None

\* Wordlist::get: the index of the child of node i on edge l, or None
get(wl, i, l) ==
    LET nd == At(wl.nodes, i)
    IN  IF l \in nd.labels THEN nd.start + index_of(nd.labels, l) ELSE None

\* Wordlist::iter_children: <<label, child>> for i in range_children(node)
iter_children(wl, i) ==
    LET nd == At(wl.nodes, i)
        n  == Cardinality(nd.labels)
    IN  [j \in 1..n |-> <<At(wl.labels, nd.start + j - 1), nd.start + j - 1>>]

\* Wordlist::is_word, the loop over the labels of the word from node i
RECURSIVE walk(_, _, _)
walk(wl, i, word) ==
    IF word = <<>> THEN i
    ELSE LET c == get(wl, i, Head(word))
         IN  IF c = None THEN None ELSE walk(wl, c, Tail(word))

\* an is_word that is content with having walked the word
is_word_walked(wl, word) == walk(wl, 0, word) # None

\* Wordlist::is_word

is_word(wl, word) ==
    LET i == walk(wl, 0, word)
    IN  i # None /\ At(wl.terminal, i)

\* a row of connected cells on which no label is legal
closed_row(wl, row) == [j \in 1..Len(row) |-> <<{}, TRUE>>]

\* Wordlist::connected_row: (all_labels, true) for every cell of the row
connected_row(wl, row) ==
    [j \in 1..Len(row) |-> <<wl.all_labels, TRUE>>]

---------------------------------------------------------------------------
(* Row: tiles/items.rs *)

\* Row::is_empty_cell: a single empty cell
is_empty_cell(row) == Len(row) = 1 /\ is_empty(At(row, 0))

\* Row::start_end: the run of tiles around index i, were a tile placed at i
start_end(row, i) ==
    LET before == {p \in 0..(i - 1) : is_empty(At(row, p))}
        after  == {p \in (i + 1)..(Len(row) - 1) : is_empty(At(row, p))}
        start  == IF before = {} THEN 0
                  ELSE (CHOOSE p \in before : \A q \in before : q <= p) + 1
        end    == IF after = {} THEN Len(row)
                  ELSE CHOOSE p \in after : \A q \in after : p <= q
    IN  <<start, end>>

\* Row::surrounding_word: that run, every cell without its wildcard flag
surrounding_word(row, i) ==
    LET se == start_end(row, i)
    IN  [k \in 1..(se[2] - se[1]) |-> to_letter(At(row, se[1] + k - 1))]

---------------------------------------------------------------------------
(* Row matcher: wordlist/matches.rs *)

\* the concatenation of a sequence of sequences, in order
RECURSIVE flat(_)
flat(ss) == IF ss = <<>> THEN <<>> ELSE Head(ss) \o flat(Tail(ss))

\* struct Args
\* Args that are connecting from the start
Args_connecting(node, pos, letters, word, next, connecting, extending) ==
    [node |-> node, pos |-> pos, letters |-> letters, word |-> word,
     next |-> next, connecting |-> TRUE, extending |-> extending]

Args(node, pos, letters, word, next, connecting, extending) ==
    [node |-> node, pos |-> pos, letters |-> letters, word |-> word,
     next |-> next, connecting |-> connecting, extending |-> extending]

(* Matches::next, lines 54-93: what one rack letter at index i (from 0)    *)
(* pushes on the queue for the empty square at a.pos; word is a.word after *)
(* the pending tile was pushed.                                            *)
push_letter(wl, rd, a, word, i) ==
    LET letter      == At(a.letters, i)
        valid_chars == At(rd, a.pos)[1]
        connected   == At(rd, a.pos)[2]
        next_letters == remove(a.letters, i)
    IN  IF ~is_blank(letter) /\ label(letter) \notin valid_chars THEN <<>>
        ELSE IF contains_before(a.letters, i, letter) THEN <<>>
        ELSE IF is_blank(letter)
        THEN LET kids == iter_children(wl, a.node)
                 Legal(k) == k[1] \in valid_chars
                 sel  == SelectSeq(kids, Legal)
             IN  [j \in 1..Len(sel) |->
                    Args(sel[j][2], a.pos + 1, next_letters, word,
                         wildcard_from_letter(sel[j][1]),
                         a.connecting \/ connected, TRUE)]
        ELSE LET child == get(wl, a.node, label(letter))
             IN  IF child = None THEN <<>>
                 ELSE <<Args(child, a.pos + 1, next_letters, word, letter,
                             a.connecting \/ connected, TRUE)>>

(* Matches::next run to exhaustion: the words in the order they are        *)
(* returned.  queue is child_iter, out the words returned so far.          *)
RECURSIVE matches_run(_, _, _, _, _)
matches_run(wl, row, rd, queue, out) ==
    IF queue = <<>> THEN out
    ELSE LET a    == Head(queue)
             word == IF a.next # None THEN Append(a.word, a.next) ELSE a.word
         IN  IF a.pos = Len(row)
             THEN matches_run(wl, row, rd, Tail(queue), out)
             ELSE IF ~is_empty(At(row, a.pos))
             THEN LET tile  == At(row, a.pos)
                      child == get(wl, a.node, label(tile))
                      pushed == IF child = None THEN <<>>
                                ELSE <<Args(child, a.pos + 1, a.letters, word,
                                            tile, TRUE, a.extending)>>
                  IN  matches_run(wl, row, rd, Tail(queue) \o pushed, out)
             ELSE LET pushed == IF a.pos < Len(row) - 1
                                THEN flat([i \in 1..Len(a.letters) |->
                                             push_letter(wl, rd, a, word, i - 1)])
                                ELSE <<>>
                      emit == /\ At(wl.terminal, a.node)
                              /\ a.connecting
                              /\ a.extending
                              /\ Len(word) > 1
                  IN  matches_run(wl, row, rd, Tail(queue) \o pushed,
                                  IF emit THEN Append(out, word) ELSE out)

\* Wordlist::matches, collected
matches(wl, node, row, rd, pos, letters) ==
    matches_run(wl, row, rd,
                <<Args(node, pos, letters, <<>>, None, FALSE, FALSE)>>, <<>>)

\* the distances when a word may start in the cell next to a letter
RECURSIVE start_dist_next(_, _, _, _, _)
start_dist_next(row, rd, i, d, dist) ==
    IF i < 0 THEN dist
    ELSE LET d1 == IF ~is_empty(At(row, i)) THEN 0
                   ELSE IF At(rd, i)[2] THEN 1
                   ELSE d
         IN  start_dist_next(row, rd, i - 1, d1 + 1,
                             [dist EXCEPT ![i + 1] = d1])

(* Wordlist::start_indices: the loop of lines 151-165, from i down to 0,   *)
(* with the running distance d and the distances found so far.             *)
RECURSIVE start_dist(_, _, _, _, _)
start_dist(row, rd, i, d, dist) ==
    IF i < 0 THEN dist
    ELSE LET d1 == IF ~is_empty(At(row, i)) THEN 0
                   ELSE IF At(rd, i)[2] THEN 1
                   ELSE d
             di == IF i > 0 /\ ~is_empty(At(row, i - 1)) THEN DIM ELSE d1
         IN  start_dist(row, rd, i - 1, d1 + 1, [dist EXCEPT ![i + 1] = di])

\* start indices that are the left edge only
start_indices_left(row, rd, maxdist) == <<0>>

\* start indices that leave one letter of the rack unused
start_indices_short(row, rd, maxdist) ==
    LET dist == start_dist(row, rd, Len(rd) - 1, DIM, [k \in 1..DIM |-> DIM])
    IN  ascending({i \in 0..(DIM - 1) : At(dist, i) < maxdist})

\* Wordlist::start_indices
start_indices(row, rd, maxdist) ==
    LET dist == start_dist(row, rd, Len(rd) - 1, DIM, [k \in 1..DIM |-> DIM])
    IN  ascending({i \in 0..(DIM - 1) : At(dist, i) <= maxdist})

\* Wordlist::words with maxdist = None: <<pos, word>> for every start index
words(wl, row, rd, letters) ==
    LET row1    == Append(row, EMPTY)
        indices == start_indices(row1, rd, Len(letters))
    IN  flat([k \in 1..Len(indices) |->
                LET ms == matches(wl, 0, row1, rd, indices[k], letters)
                IN  [j \in 1..Len(ms) |-> <<indices[k], ms[j]>>]])

\* legal characters that are every label of the wordlist
get_legal_all(wl, word) == wl.all_labels

\* Wordlist::get_legal_characters
get_legal_characters(wl, word) ==
    IF is_empty_cell(word) THEN wl.all_labels
    ELSE LET empties == {p \in 0..(Len(word) - 1) : is_empty(At(word, p))}
         IN  IF empties = {} THEN {}
             ELSE LET i  == CHOOSE p \in empties : \A q \in empties : p <= q
                      ms == matches(wl, 0, Append(word, EMPTY),
                                    connected_row(wl, word), 0, <<BLANK>>)
                  IN  {label(At(ms[j], i)) : j \in 1..Len(ms)}

---------------------------------------------------------------------------
(* Grid and tile set: grid.rs, tilesets.rs *)

\* _DEFAULT_QUARTER_BOARD
DEFAULT_QUARTER_BOARD ==
    << <<"3l", "--", "--", "--", "3w", "--", "--", "2l">>,
       <<"--", "2l", "--", "--", "--", "3l", "--", "--">>,
       <<"--", "--", "2w", "--", "--", "--", "2l", "--">>,
       <<"--", "--", "--", "3l", "--", "--", "--", "2w">>,
       <<"3w", "--", "--", "--", "2w", "--", "2l", "--">>,
       <<"--", "3l", "--", "--", "--", "3l", "--", "--">>,
       <<"--", "--", "2l", "--", "2l", "--", "--", "--">>,
       <<"2l", "--", "--", "2w", "--", "--", "--", "ss">> >>

\* Grid::default / expand_quarter_board: the quarter mirrored both ways
grid_cell(y, x) ==
    LET i == IF y < N - y - 1 THEN y ELSE N - y - 1
        j == IF x < N - x - 1 THEN x ELSE N - x - 1
    IN  At(At(DEFAULT_QUARTER_BOARD, i), j)

\* Cell::LetterBonus(n): the factor on the letter, 1 without one
letter_bonus(y, x) ==
    LET c == grid_cell(y, x)
    IN  IF c = "2l" THEN 2 ELSE IF c = "3l" THEN 3 ELSE 1

\* Cell::WordBonus(n): the factor on the word, 1 without one
word_bonus(y, x) ==
    LET c == grid_cell(y, x)
    IN  IF c = "2w" THEN 2 ELSE IF c = "3w" THEN 3 ELSE 1

(* The point values of the English tiles that the documentation of         *)
(* calc_word_points states: d 2, e 1, f 4, o 1, r 1, u 2, w 4.             *)
TILE_POINTS ==
    [c \in {4, 5, 6, 15, 18, 21, 23} |->
        IF c \in {6, 23} THEN 4 ELSE IF c \in {4, 21} THEN 2 ELSE 1]

\* TileSet::points: the table entry of the code, or 0 if not found
points(tilecode) ==
    IF tilecode \in DOMAIN TILE_POINTS THEN TILE_POINTS[tilecode] ELSE 0

---------------------------------------------------------------------------
(* Board: board.rs *)

empty_row == [j \in 1..N |-> EMPTY]
empty_state == [i \in 1..N |-> empty_row]
empty_rowdata == [j \in 1..N |-> <<{}, FALSE>>]

\* set_state, lines 233-237: vertical[j][i] = horizontal[i][j]
mirror(rows) == [j \in 1..N |-> [i \in 1..N |-> rows[i][j]]]

\* Board::surrounding_words
surrounding_words(h, v, hor, i) ==
    LET crossing_rows == IF hor THEN v ELSE h
    IN  [j \in 1..N |-> surrounding_word(crossing_rows[j], i)]

\* Board::calc_rowdata
calc_rowdata(wl, h, v, hor, i) ==
    LET sw == surrounding_words(h, v, hor, i)
    IN  [j \in 1..N |->
            <<get_legal_characters(wl, sw[j]),
              (i = 7 /\ j - 1 = 7) \/ ~is_empty_cell(sw[j])>>]

\* Board::set_rowdata: rowdata[0] the vertical lines, rowdata[1] the horizontal
set_rowdata(wl, h, v) ==
    << [i \in 1..N |-> calc_rowdata(wl, h, v, FALSE, i - 1)],
       [i \in 1..N |-> calc_rowdata(wl, h, v, TRUE, i - 1)] >>

\* the results of try_word / play_word / calc_word_points
Ok(v) == [kind |-> "Ok", value |-> v]
TilePlacementError(x, y, hor, len) ==
    [kind |-> "TilePlacementError", x |-> x, y |-> y, horizontal |-> hor,
     len |-> len]
TileReplaceError(x, y) == [kind |-> "TileReplaceError", x |-> x, y |-> y]
\* an index past the end of a row or of the state: the call panics
Panic == [kind |-> "panic"]

\* the placement test of try_word (line 380) and calc_word_points (line 450)
overruns(len, x, y, hor) ==
    LET dx == IF hor THEN 1 ELSE 0
        dy == IF hor THEN 0 ELSE 1
    IN  (x + len * dx > N) \/ (y + len * dy > N)

\* Board::try_word, lines 389-399: the tiles from index k (from 1) on
RECURSIVE try_cells(_, _, _, _, _, _, _)
try_cells(h, word, k, x, y, hor, used_letters) ==
    IF k > Len(word) THEN Ok(used_letters)
    ELSE IF y >= N \/ x >= N THEN Panic
    ELSE LET c    == At(At(h, y), x)
             tile == word[k]
             x1   == IF hor THEN x + 1 ELSE x
             y1   == IF hor THEN y ELSE y + 1
         IN  IF is_empty(c)
             THEN try_cells(h, word, k + 1, x1, y1, hor,
                            Append(used_letters, from_tile(tile)))
             ELSE IF c # tile THEN TileReplaceError(x, y)
             ELSE try_cells(h, word, k + 1, x1, y1, hor, used_letters)

\* try_word as the doc note of play_word has it: a different tile on the
\* board is silently overwritten
try_word_overwriting(h, word, x, y, hor) ==
    IF overruns(Len(word), x, y, hor)
    THEN TilePlacementError(x, y, hor, Len(word))
    ELSE IF \E k \in 1..Len(word) :
                (IF hor THEN x + k - 1 ELSE x) >= N
                    \/ (IF hor THEN y ELSE y + k - 1) >= N
    THEN Panic
    ELSE Ok([k \in 1..Len(word) |-> from_tile(word[k])])

\* Board::try_word
try_word(h, word, x, y, hor) ==
    IF overruns(Len(word), x, y, hor)
    THEN TilePlacementError(x, y, hor, Len(word))
    ELSE try_cells(h, word, 1, x, y, hor, <<>>)

\* Board::play_word_unchecked, lines 367-371: the tiles written into horizontal
write_word(h, word, x, y, hor) ==
    [i \in 1..N |-> [j \in 1..N |->
        LET k == IF hor THEN (j - 1) - x + 1 ELSE (i - 1) - y + 1
            on == IF hor THEN i - 1 = y ELSE j - 1 = x
        IN  IF on /\ k >= 1 /\ k <= Len(word) THEN word[k] ELSE h[i][j]]]

\* the cells start..end of the row as they are, nothing replaced
replace_nothing(row, start, end, from, to) ==
    [k \in 1..(end - start) |-> At(row, start + k - 1)]

\* Row::replace: self[start..end] with every `from` cell replaced by `to`
replace(row, start, end, from, to) ==
    [k \in 1..(end - start) |->
        IF At(row, start + k - 1) = from THEN to ELSE At(row, start + k - 1)]

\* the square's factor taken whether or not the square is empty
premium_always(fresh, n) == n

\* lines 479-489: the factor n of a bonus square counts only when the
\* square is empty on the board
premium(fresh, n) == IF fresh THEN n ELSE 1

\* the bonus given for more than 7 tiles only
bingo_above(tiles_used) == IF tiles_used > 7 THEN 40 ELSE 0

\* lines 513-515: the bingo bonus
bingo(tiles_used) == IF tiles_used >= 7 THEN 40 ELSE 0

(* Board::calc_word_points_unchecked, the loop of lines 476-511 from tile   *)
(* k (from 1) on; acc holds word_multiplicator, word_points, tiles_used and *)
(* total_points.                                                            *)
RECURSIVE points_loop(_, _, _, _, _, _, _, _, _)
points_loop(h, v, word, k, x, y, hor, include_crossing_words, acc) ==
    IF k > Len(word)
    THEN acc.total_points + acc.word_points * acc.word_multiplicator
         + bingo(acc.tiles_used)
    ELSE LET tile  == word[k]
             fresh == is_empty(At(At(h, y), x))
             letter_points == points(tile) * premium(fresh, letter_bonus(y, x))
             crow  == IF hor THEN At(v, x) ELSE At(h, y)
             ci    == IF hor THEN y ELSE x
             se    == start_end(crow, ci)
             cx    == IF hor THEN x ELSE se[1]
             cy    == IF hor THEN se[1] ELSE y
             cross == IF fresh /\ include_crossing_words /\ se[2] - se[1] > 1
                      THEN points_loop(h, v,
                               replace(crow, se[1], se[2], EMPTY, tile),
                               1, cx, cy, ~hor, FALSE,
                               [word_multiplicator |-> 1, word_points |-> 0,
                                tiles_used |-> 0, total_points |-> 0])
                      ELSE 0
         IN  points_loop(h, v, word, k + 1,
                 IF hor THEN x + 1 ELSE x, IF hor THEN y ELSE y + 1,
                 hor, include_crossing_words,
                 [word_multiplicator |->
                      acc.word_multiplicator * premium(fresh, word_bonus(y, x)),
                  word_points  |-> acc.word_points + letter_points,
                  tiles_used   |-> acc.tiles_used + (IF fresh THEN 1 ELSE 0),
                  total_points |-> acc.total_points + cross])

\* Board::calc_word_points_unchecked
calc_word_points_unchecked(h, v, word, x0, y0, hor, include_crossing_words) ==
    points_loop(h, v, word, 1, x0, y0, hor, include_crossing_words,
                [word_multiplicator |-> 1, word_points |-> 0,
                 tiles_used |-> 0, total_points |-> 0])

\* Board::calc_word_points
calc_word_points(h, v, word, x, y, hor, include_crossing_words) ==
    IF overruns(Len(word), x, y, hor)
    THEN TilePlacementError(x, y, hor, Len(word))
    ELSE IF (Len(word) > 0 /\ (x >= N \/ y >= N)) THEN Panic
    ELSE Ok(calc_word_points_unchecked(h, v, word, x, y, hor,
                                       include_crossing_words))

\* a Score with its coordinates exchanged
Score_transposed(x, y, hor, word, score) ==
    [x |-> y, y |-> x, horizontal |-> hor, word |-> word, score |-> score]

\* struct Score
Score(x, y, hor, word, score) ==
    [x |-> x, y |-> y, horizontal |-> hor, word |-> word, score |-> score]

\* Board::words: the matcher on one line with that line's rowdata
board_words(wl, rd, row, hor, i, letters) ==
    words(wl, row, At(At(rd, IF hor THEN 1 ELSE 0), i), letters)

\* calc_all_word_scores_inner, hor_scores: the records of horizontal row i
hor_scores(wl, h, v, rd, i, letters) ==
    LET ws == board_words(wl, rd, At(h, i), TRUE, i, letters)
    IN  [k \in 1..Len(ws) |->
            Score(ws[k][1], i, TRUE, ws[k][2],
                  calc_word_points_unchecked(h, v, ws[k][2], ws[k][1], i,
                                             TRUE, TRUE))]

\* calc_all_word_scores_inner, ver_scores: the records of vertical column i
ver_scores(wl, h, v, rd, i, letters) ==
    LET ws == board_words(wl, rd, At(v, i), FALSE, i, letters)
    IN  [k \in 1..Len(ws) |->
            Score(i, ws[k][1], FALSE, ws[k][2],
                  calc_word_points_unchecked(h, v, ws[k][2], i, ws[k][1],
                                             FALSE, TRUE))]

\* Board::calc_all_word_scores_inner
calc_all_word_scores(wl, h, v, rd, letters) ==
    flat([i \in 1..N |-> hor_scores(wl, h, v, rd, i - 1, letters)])
    \o flat([i \in 1..N |-> ver_scores(wl, h, v, rd, i - 1, letters)])

\* the largest number of a non-empty sequence of numbers (sort by Reverse,
\* then the first)
seq_max(scores) ==
    CHOOSE m \in {scores[k] : k \in 1..Len(scores)} :
        \A k \in 1..Len(scores) : scores[k] <= m

\* the first result of a sequence that is an error, or None
first_error(results) ==
    LET errs == {k \in 1..Len(results) : results[k].kind # "Ok"}
    IN  IF errs = {} THEN None
        ELSE CHOOSE k \in errs : \A j \in errs : k <= j

(* In the definitions below a value that is used more than once is bound   *)
(* by a quantifier over the set that holds only it, as a let binding of    *)
(* the code is: CHOOSE val \in {e(x) : x \in {d}} : TRUE is e(d).            *)

\* the best score of the replies whether or not the game is ending
evaluate_opponent_midgame(wl, h, v, rd, letters, our_tile_score, in_endgame) ==
    CHOOSE val \in
        { IF result = <<>> THEN Ok(<<0, FALSE>>)
          ELSE Ok(<<seq_max([k \in 1..Len(result) |-> result[k].score]),
                    FALSE>>) :
            result \in {calc_all_word_scores(wl, h, v, rd, letters)} } : TRUE

\* Board::evaluate_opponent_scores, lines 648-667: the replies are known
opponent_best(h, letters, our_tile_score, in_endgame, result) ==
    IF ~in_endgame
    THEN IF result = <<>> THEN Ok(<<0, FALSE>>)
         ELSE Ok(<<seq_max([k \in 1..Len(result) |-> result[k].score]),
                   FALSE>>)
    ELSE CHOOSE val \in
        { LET err    == first_error(played)
              exits  == {k \in 1..Len(result) :
                            Len(played[k].value) = Len(letters)}
              scores == <<0>> \o [k \in 1..Len(result) |->
                            IF k \in exits
                            THEN result[k].score + our_tile_score
                            ELSE result[k].score]
          IN  IF err # None THEN played[err]
              ELSE Ok(<<seq_max(scores), exits # {}>>) :
            played \in {[k \in 1..Len(result) |->
                            try_word(h, result[k].word, result[k].x,
                                     result[k].y, result[k].horizontal)]} }
        : TRUE

\* Board::evaluate_opponent_scores
evaluate_opponent_scores(wl, h, v, rd, letters, our_tile_score, in_endgame) ==
    CHOOSE val \in
        { opponent_best(h, letters, our_tile_score, in_endgame, result) :
            result \in {calc_all_word_scores(wl, h, v, rd, letters)} } : TRUE

\* Board::sample_scores: the evaluation of every rack, or the first error
sample_scores(wl, h, v, rd, racks, our_tile_score, in_endgame) ==
    CHOOSE val \in
        { LET err == first_error(res)
          IN  IF err # None THEN res[err]
              ELSE Ok([k \in 1..Len(racks) |-> res[k].value]) :
            res \in {[k \in 1..Len(racks) |->
                         evaluate_opponent_scores(wl, h, v, rd, racks[k],
                                                  our_tile_score,
                                                  in_endgame)]} } : TRUE

---------------------------------------------------------------------------
(* The board as a state machine: Board::new, then any sequence of          *)
(* set_wordlist, set_state, play_word and calc_all_word_scores, with a      *)
(* caller that may snapshot horizontal() and restore it with set_state.    *)

\* the most mutating plays of one run
MaxPlays == 2

\* the lexicon the board is given: do, od, of, doe, ode
Words == << <<4, 15>>, <<15, 4>>, <<15, 6>>, <<4, 15, 5>>, <<15, 4, 5>> >>
EmptyWL == from_words(<<>>)
SmallWL == from_words(Words)

\* the plays tried, as <<word, x, y, horizontal>>: do, of, Doe (a wildcard
\* D) and ode around the centre, od at the right edge, ode across it, of
\* down onto the centre
Moves == { << <<4, 15>>, 7, 7, TRUE >>,
           << <<15, 6>>, 8, 7, FALSE >>,
           << <<68, 15, 5>>, 7, 7, TRUE >>,
           << <<15, 4, 5>>, 7, 6, FALSE >>,
           << <<15, 4>>, 13, 7, TRUE >>,
           << <<15, 4, 5>>, 13, 7, TRUE >>,
           << <<15, 6>>, 7, 6, FALSE >> }
\* the racks searched: "do", "oe*"
Racks == { <<4, 15>>, <<15, 5, 64>> }

Idle == [op |-> "idle"]

Init ==
    /\ wordlist = EmptyWL
    /\ horizontal = empty_state
    /\ vertical = empty_state
    /\ rowdata = <<[i \in 1..N |-> empty_rowdata], [i \in 1..N |-> empty_rowdata]>>
    /\ save = empty_state
    /\ saveV = empty_state
    /\ saveRowdata = <<>>
    /\ undo = "none"
    /\ call = Idle
    /\ ret = Idle
    /\ nplays = 0
    /\ m_row = <<>> /\ m_rowdata = <<>> /\ m_letters = <<>> /\ m_pos = 0
    /\ m_out = <<>>

\* Board::set_state
set_state(rows) ==
    /\ horizontal' = rows
    /\ vertical' = mirror(rows)
    /\ rowdata' = set_rowdata(wordlist, rows, mirror(rows))

\* the caller's snapshot goes out of scope
Forget ==
    /\ save' = empty_state
    /\ saveV' = empty_state
    /\ saveRowdata' = <<>>

\* Board::set_wordlist
SetWordlist ==
    /\ call = Idle
    /\ wordlist = EmptyWL
    /\ wordlist' = SmallWL
    /\ rowdata' = set_rowdata(SmallWL, horizontal, vertical)
    /\ call' = [op |-> "set_wordlist"]
    /\ ret' = Ok(<<>>)
    /\ UNCHANGED <<horizontal, vertical, save, saveV, saveRowdata, undo, nplays>>
    /\ UNCHANGED matchVars

\* the caller keeps horizontal() (find_best_scores: saved_state)
Snapshot ==
    /\ call = Idle
    /\ undo = "none"
    /\ save' = horizontal
    /\ saveV' = vertical
    /\ saveRowdata' = rowdata
    /\ undo' = "saved"
    /\ call' = [op |-> "horizontal"]
    /\ ret' = Ok(<<>>)
    /\ UNCHANGED <<wordlist, horizontal, vertical, rowdata, nplays>>
    /\ UNCHANGED matchVars

\* Board::set_state with the snapshot
Restore ==
    /\ call = Idle
    /\ undo \in {"saved", "played"}
    /\ set_state(save)
    /\ undo' = IF undo = "played" THEN "restored" ELSE "none"
    /\ IF undo = "played"
       THEN UNCHANGED <<save, saveV, saveRowdata>>
       ELSE Forget
    /\ call' = [op |-> "set_state"]
    /\ ret' = Ok(<<>>)
    /\ UNCHANGED <<wordlist, nplays>>
    /\ UNCHANGED matchVars

\* Board::play_word
play_word(word, x, y, hor, modify) ==
    LET r == try_word(horizontal, word, x, y, hor)
    IN  /\ ret' = r
        /\ IF r.kind = "Ok" /\ modify
           THEN /\ set_state(write_word(horizontal, word, x, y, hor))
                /\ nplays' = nplays + 1
                /\ undo' = IF undo = "saved" THEN "played" ELSE "none"
                /\ IF undo = "saved"
                   THEN UNCHANGED <<save, saveV, saveRowdata>>
                   ELSE Forget
           ELSE UNCHANGED <<horizontal, vertical, rowdata, nplays, undo,
                            save, saveV, saveRowdata>>

PlayWord ==
    /\ call = Idle
    /\ \E mv \in Moves, modify \in BOOLEAN :
          /\ (modify /\ try_word(horizontal, mv[1], mv[2], mv[3], mv[4]).kind = "Ok")
                => nplays < MaxPlays
          /\ play_word(mv[1], mv[2], mv[3], mv[4], modify)
          /\ call' = [op |-> "play_word", word |-> mv[1], x |-> mv[2],
                      y |-> mv[3], horizontal |-> mv[4], modify |-> modify]
    /\ UNCHANGED wordlist
    /\ UNCHANGED matchVars

\* Board::calc_all_word_scores
CalcAllWordScores ==
    /\ call = Idle
    /\ \E letters \in Racks :
          /\ ret' = Ok(calc_all_word_scores(wordlist, horizontal, vertical,
                                            rowdata, letters))
          /\ call' = [op |-> "calc_all_word_scores", letters |-> letters]
    /\ UNCHANGED <<wordlist, horizontal, vertical, rowdata, save, saveV,
                   saveRowdata, undo, nplays>>
    /\ UNCHANGED matchVars

\* the caller takes the result; a panic ends the run
Return ==
    /\ call # Idle
    /\ ret.kind # "panic"
    /\ call' = Idle
    /\ ret' = Idle
    /\ undo' = IF undo = "restored" THEN "none" ELSE undo
    /\ IF undo = "restored"
       THEN Forget
       ELSE UNCHANGED <<save, saveV, saveRowdata>>
    /\ UNCHANGED <<wordlist, horizontal, vertical, rowdata, nplays>>
    /\ UNCHANGED matchVars

Next ==
    \/ SetWordlist
    \/ Snapshot
    \/ Restore
    \/ PlayWord
    \/ CalcAllWordScores
    \/ Return

Spec == Init /\ [][Next]_vars

---------------------------------------------------------------------------
(* The board of the root crate (src/src/board.rs): the same Board::new and  *)
(* set_state, and a play_word that writes into horizontal as it walks.      *)

\* Board::play_word of src/src/board.rs, the loop of lines 308-320 from
\* tile k (from 1) on; the result is the row state written and the value
RECURSIVE legacy_cells(_, _, _, _, _, _, _, _)
legacy_cells(h, word, k, x, y, hor, modify, used_letters) ==
    IF k > Len(word) THEN [h |-> h, ret |-> Ok(used_letters)]
    ELSE IF y >= N \/ x >= N THEN [h |-> h, ret |-> Panic]
    ELSE LET c      == At(At(h, y), x)
             letter == word[k]
             x1     == IF hor THEN x + 1 ELSE x
             y1     == IF hor THEN y ELSE y + 1
             h1     == IF modify
                       THEN [h EXCEPT ![y + 1][x + 1] = letter]
                       ELSE h
         IN  IF is_empty(c)
             THEN legacy_cells(h1, word, k + 1, x1, y1, hor, modify,
                               Append(used_letters, letter))
             ELSE IF c # letter
             THEN [h |-> h, ret |-> TileReplaceError(x, y)]
             ELSE legacy_cells(h1, word, k + 1, x1, y1, hor, modify,
                               used_letters)

\* Board::play_word of src/src/board.rs
legacy_play_word(word, x, y, hor, modify) ==
    LET r == IF overruns(Len(word), x, y, hor)
             THEN [h |-> horizontal,
                   ret |-> TilePlacementError(x, y, hor, Len(word))]
             ELSE legacy_cells(horizontal, word, 1, x, y, hor, modify, <<>>)
    IN  /\ ret' = r.ret
        /\ IF r.ret.kind = "Ok"
           THEN set_state(r.h)
           ELSE /\ horizontal' = r.h
                /\ UNCHANGED <<vertical, rowdata>>

LegacyPlayWord ==
    /\ call = Idle
    /\ \E mv \in Moves, modify \in BOOLEAN :
          /\ modify => nplays < MaxPlays
          /\ legacy_play_word(mv[1], mv[2], mv[3], mv[4], modify)
          /\ nplays' = IF modify THEN nplays + 1 ELSE nplays
          /\ call' = [op |-> "play_word", word |-> mv[1], x |-> mv[2],
                      y |-> mv[3], horizontal |-> mv[4], modify |-> modify]
    /\ UNCHANGED <<wordlist, save, saveV, saveRowdata, undo>>
    /\ UNCHANGED matchVars

\* Board::with_state_from_strings of src/src/board.rs: set_state
LegacySetState ==
    /\ call = Idle
    /\ \E rows \in {empty_state,
                    write_word(empty_state, <<4, 15>>, 7, 7, TRUE)} :
          set_state(rows)
    /\ call' = [op |-> "set_state"]
    /\ ret' = Ok(<<>>)
    /\ UNCHANGED <<wordlist, save, saveV, saveRowdata, undo, nplays>>
    /\ UNCHANGED matchVars

NextLegacy ==
    \/ LegacySetState
    \/ LegacyPlayWord
    \/ Return

SpecLegacy == Init /\ [][NextLegacy]_vars

---------------------------------------------------------------------------
(* One call of play_word or calc_word_points on a board that was built    *)
(* with a wordlist and a state; save keeps the state the call started on.  *)

\* TEST_STATE of the tests of board.rs, a = 1 .. z = 26, the wildcards S
\* and J with their flag
TEST_STATE == <<
    <<0, 0, 0, 0, 20, 0, 0, 0, 0, 0, 3, 0, 0, 0, 6>>,
    <<0, 0, 0, 0, 5, 0, 0, 0, 0, 8, 5, 0, 0, 0, 15>>,
    <<0, 0, 0, 0, 18, 0, 0, 0, 2, 9, 19, 0, 7, 0, 11>>,
    <<0, 0, 0, 0, 21, 0, 0, 2, 15, 12, 0, 20, 5, 0, 22>>,
    <<0, 0, 0, 0, 7, 5, 16, 15, 6, 0, 4, 9, 13, 13, 5>>,
    <<0, 0, 0, 0, 0, 0, 12, 1, 0, 22, 18, 5, 5, 0, 5>>,
    <<0, 0, 0, 0, 17, 21, 1, 0, 0, 0, 5, 14, 5, 0, 0>>,
    <<0, 0, 0, 0, 0, 0, 83, 16, 15, 5, 12, 5, 14, 0, 0>>,
    <<0, 0, 0, 0, 0, 19, 0, 1, 0, 0, 0, 14, 0, 0, 0>>,
    <<0, 0, 0, 0, 0, 3, 0, 4, 0, 23, 5, 0, 0, 0, 0>>,
    <<0, 0, 0, 0, 0, 8, 1, 4, 4, 5, 14, 0, 0, 0, 0>>,
    <<0, 0, 0, 0, 14, 21, 0, 15, 0, 0, 0, 25, 0, 0, 0>>,
    <<0, 0, 23, 18, 1, 20, 0, 19, 9, 74, 26, 5, 14, 0, 0>>,
    <<0, 0, 0, 0, 11, 0, 0, 0, 0, 0, 15, 19, 0, 0, 0>>,
    <<0, 0, 0, 26, 5, 18, 11, 0, 0, 0, 7, 0, 0, 0, 0>> >>
\* the lexicon of test_calc_all_word_scores: af, ah, al, aar, aas, be, bi,
\* bo, bar, bes, bel
TEST_WORDS == << <<1, 6>>, <<1, 8>>, <<1, 12>>, <<1, 1, 18>>, <<1, 1, 19>>,
                 <<2, 5>>, <<2, 9>>, <<2, 15>>, <<2, 1, 18>>, <<2, 5, 19>>,
                 <<2, 5, 12>> >>
TestWL == from_words(TEST_WORDS)

\* the states the call starts on: empty, "do" on the centre, "Doe" in the
\* bottom right corner, "do" crossed by "of"
TryBoards == { empty_state,
               write_word(empty_state, <<4, 15>>, 7, 7, TRUE),
               write_word(empty_state, <<68, 15, 5>>, 12, 14, TRUE),
               write_word(write_word(empty_state, <<4, 15>>, 7, 7, TRUE),
                          <<15, 6>>, 8, 7, FALSE) }
\* the boards the call starts on, as <<wordlist, state>>
TryStarts == ({SmallWL} \X TryBoards) \cup {<<TestWL, TEST_STATE>>}
\* the racks searched: "abel", "do", "oe*"
TryRacks == { <<1, 2, 5, 12>>, <<4, 15>>, <<15, 5, 64>> }
\* the words placed: o, do, of, Doe, doe, wordfeud and fifteen o's
TryWords == { <<15>>, <<4, 15>>, <<15, 6>>, <<68, 15, 5>>, <<4, 15, 5>>,
              <<23, 15, 18, 4, 6, 5, 21, 4>>, [k \in 1..N |-> 15] }
\* the start coordinates: on the board, at its far edge and past it
TryXs == {0, 7, 11, 12, 13, 14, 15, 16}

InitTry ==
    /\ \E b \in TryStarts : wordlist = b[1] /\ horizontal = b[2]
    /\ vertical = mirror(horizontal)
    /\ rowdata = set_rowdata(wordlist, horizontal, vertical)
    /\ save = horizontal
    /\ saveV = vertical
    /\ saveRowdata = rowdata
    /\ undo = "saved"
    /\ call = Idle
    /\ ret = Idle
    /\ nplays = 0
    /\ m_row = <<>> /\ m_rowdata = <<>> /\ m_letters = <<>> /\ m_pos = 0
    /\ m_out = <<>>

\* Board::play_word, once
TryPlayWord ==
    /\ call = Idle
    /\ \E word \in TryWords, x \in TryXs, y \in TryXs, hor \in BOOLEAN,
          modify \in BOOLEAN :
          /\ play_word(word, x, y, hor, modify)
          /\ call' = [op |-> "play_word", word |-> word, x |-> x, y |-> y,
                      horizontal |-> hor, modify |-> modify]
    /\ UNCHANGED wordlist
    /\ UNCHANGED matchVars

\* Board::calc_word_points, once
TryCalcWordPoints ==
    /\ call = Idle
    /\ \E word \in TryWords, x \in TryXs, y \in TryXs, hor \in BOOLEAN,
          include_crossing_words \in BOOLEAN :
          /\ ret' = calc_word_points(horizontal, vertical, word, x, y, hor,
                                     include_crossing_words)
          /\ call' = [op |-> "calc_word_points", word |-> word, x |-> x,
                      y |-> y, horizontal |-> hor,
                      include_crossing_words |-> include_crossing_words]
    /\ UNCHANGED <<wordlist, horizontal, vertical, rowdata, save, saveV,
                   saveRowdata, undo, nplays>>
    /\ UNCHANGED matchVars

\* Board::calc_all_word_scores, once
TryCalcAllWordScores ==
    /\ call = Idle
    /\ \E letters \in TryRacks :
          /\ ret' = Ok(calc_all_word_scores(wordlist, horizontal, vertical,
                                            rowdata, letters))
          /\ call' = [op |-> "calc_all_word_scores", letters |-> letters]
    /\ UNCHANGED boardVars
    /\ UNCHANGED matchVars

NextTry ==
    \/ TryPlayWord
    \/ TryCalcWordPoints
    \/ TryCalcAllWordScores

SpecTry == InitTry /\ [][NextTry]_vars

---------------------------------------------------------------------------
(* The row matcher on its own: a row, its rowdata and a rack are drawn,    *)
(* and Wordlist::matches or Wordlist::words is applied to them once.       *)

\* the cells of a row that are drawn freely
RowLen == 3
\* what a drawn cell holds: nothing, d, o or a wildcard D
MatchCells == {EMPTY, 4, 15, 68}
\* rows of RowLen cells (as the tests of the matcher pass them)
ShortRows == [1..RowLen -> MatchCells]
\* rows of a board, empty but for their last RowLen cells
BoardRows ==
    { [j \in 1..N |-> IF j > N - RowLen THEN p[j - (N - RowLen)] ELSE EMPTY] :
        p \in ShortRows }
\* the rowdata drawn for a row: every cell open and connected
\* (Wordlist::connected_row), every cell open and none connected, f
\* nowhere legal and every other cell connected, d and e legal on every
\* other cell and o on the rest with only the last but one cell connected
MatchRowData(row) ==
    { connected_row(SmallWL, row),
      [j \in 1..Len(row) |-> <<SmallWL.all_labels, FALSE>>],
      [j \in 1..Len(row) |-> <<{4, 5, 15}, j % 2 = 1>>],
      [j \in 1..Len(row) |->
          <<IF j % 2 = 0 THEN {15} ELSE {4, 5}, j = Len(row) - 1>>] }
\* the racks: "do", "o*", "e**"
MatchRacks == { <<4, 15>>, <<15, 64>>, <<5, 64, 64>> }

InitMatch ==
    /\ wordlist = SmallWL
    /\ horizontal = empty_state
    /\ vertical = empty_state
    /\ rowdata = set_rowdata(SmallWL, empty_state, empty_state)
    /\ save = empty_state
    /\ saveV = empty_state
    /\ saveRowdata = <<>>
    /\ undo = "none"
    /\ call = Idle
    /\ ret = Idle
    /\ nplays = 0
    /\ m_row \in ShortRows \cup BoardRows
    /\ m_rowdata \in MatchRowData(m_row)
    /\ m_letters \in MatchRacks
    /\ m_pos = 0
    /\ m_out = <<>>

\* Wordlist::matches from the root, on the row as it is or on the row that
\* Wordlist::words has extended with an empty square
Match ==
    /\ call = Idle
    /\ \E pos \in 0..(RowLen - 1), at_end \in BOOLEAN, extended \in BOOLEAN :
          LET p   == IF at_end THEN Len(m_row) - RowLen + pos ELSE pos
              row == IF extended THEN Append(m_row, EMPTY) ELSE m_row
          IN  /\ m_pos' = p
              /\ m_out' = matches(wordlist, 0, row, m_rowdata, p, m_letters)
              /\ call' = [op |-> "matches", row |-> row]
    /\ ret' = Ok(<<>>)
    /\ UNCHANGED <<m_row, m_rowdata, m_letters>>
    /\ UNCHANGED boardVars

\* Wordlist::words
WordsOfRow ==
    /\ call = Idle
    /\ m_out' = words(wordlist, m_row, m_rowdata, m_letters)
    /\ call' = [op |-> "words", row |-> Append(m_row, EMPTY)]
    /\ ret' = Ok(<<>>)
    /\ UNCHANGED <<m_row, m_rowdata, m_letters, m_pos>>
    /\ UNCHANGED boardVars

NextMatch ==
    \/ Match
    \/ WordsOfRow

SpecMatch == InitMatch /\ [][NextMatch]_vars

\* racks that hold a letter twice, or two blanks: "odo", "dd", "e**", "*o*"
TwinRacks == { <<15, 4, 15>>, <<4, 4>>, <<5, 64, 64>>, <<64, 15, 64>> }

\* the matcher on the rows and rowdata of InitMatch with a rack of TwinRacks
InitTwin ==
    /\ wordlist = SmallWL
    /\ horizontal = empty_state
    /\ vertical = empty_state
    /\ rowdata = set_rowdata(SmallWL, empty_state, empty_state)
    /\ save = empty_state
    /\ saveV = empty_state
    /\ saveRowdata = <<>>
    /\ undo = "none"
    /\ call = Idle
    /\ ret = Idle
    /\ nplays = 0
    /\ m_row \in ShortRows \cup BoardRows
    /\ m_rowdata \in MatchRowData(m_row)
    /\ m_letters \in TwinRacks
    /\ m_pos = 0
    /\ m_out = <<>>

SpecTwin == InitTwin /\ [][NextMatch]_vars

---------------------------------------------------------------------------
(* TileBag: tilebag.rs, and the bags of ai.rs.  A bag is a function from    *)
(* the tile codes to their number; a tile set is given by the number of    *)
(* tiles of each label.                                                    *)

\* the codes a bag can hold: the labels a .. z and the blank
BagCodes == (1..26) \cup {BLANK}

\* the number of the tiles of a sequence that have the code c
count_of(tiles, c) == Cardinality({k \in 1..Len(tiles) : tiles[k] = c})

\* TileBag::from_tiles
from_tiles(tiles) == [c \in BagCodes |-> count_of(tiles, c)]

\* TileBag::from_tileset: the tiles of the table, and two blanks
from_tileset(tileset) ==
    [c \in BagCodes |->
        (IF c \in DOMAIN tileset THEN tileset[c] ELSE 0)
        + (IF c = BLANK THEN 2 ELSE 0)]

\* impl Sub for TileBag: every tile of the other bag is taken out as often
\* as it is there, and no more often than this bag holds it
bag_sub(bag, other) ==
    [c \in BagCodes |-> IF bag[c] > other[c] THEN bag[c] - other[c] ELSE 0]

\* the number of tiles of a bag
RECURSIVE bag_len_from(_, _)
bag_len_from(bag, codes) ==
    IF codes = {} THEN 0
    ELSE LET c == CHOOSE c \in codes : TRUE
         IN  bag[c] + bag_len_from(bag, codes \ {c})
bag_len(bag) == bag_len_from(bag, BagCodes)

\* the tiles of a bag in ascending order of their code (tiles.sort_unstable)
bag_tiles(bag) ==
    flat([j \in 1..Cardinality(BagCodes) |->
             LET c == ascending(BagCodes)[j]
             IN  [k \in 1..bag[c] |-> c]])

\* the cells of a state, row after row
state_cells(h) == flat(h)

\* ai::used_tiles: the tiles on the board, a wildcard counted as a blank,
\* and the letters of the rack
used_tiles(h, rack) ==
    LET on_board == SelectSeq(state_cells(h), LAMBDA cell : ~is_empty(cell))
        codes    == [k \in 1..Len(on_board) |->
                        IF is_wildcard(on_board[k]) THEN BLANK
                        ELSE on_board[k]]
    IN  from_tiles(codes \o rack)

\* ai::remaining_tiles
remaining_tiles(full_bag, h, rack) == bag_sub(full_bag, used_tiles(h, rack))

---------------------------------------------------------------------------
(* find_best_scores: ai.rs.  The random draws of the opponent's racks are  *)
(* an argument; std, a float, is left out of the records.                  *)

RECURSIVE seq_sum(_)
seq_sum(s) == IF s = <<>> THEN 0 ELSE Head(s) + seq_sum(Tail(s))

\* ai::tiles_score
tiles_score(tiles) == seq_sum([k \in 1..Len(tiles) |-> points(tiles[k])])

\* words.sort_by(|a, b| b.score.cmp(&a.score)): a stable sort, the highest
\* score first
sort_by_score(words0) ==
    CHOOSE val \in
        { LET rank(k) == 1 + Cardinality({j \in 1..Len(ws) :
                              \/ ws[j].score > ws[k].score
                              \/ (ws[j].score = ws[k].score /\ j < k)})
          IN  [p \in 1..Len(ws) |->
                  ws[CHOOSE k \in 1..Len(ws) : rank(k) = p]] :
            ws \in {words0} } : TRUE

\* a / b rounded to the nearest integer, halves away from zero (f32::round)
round_div(a, b) ==
    IF a >= 0 THEN (2 * a + b) \div (2 * b)
    ELSE 0 - ((2 * (0 - a) + b) \div (2 * b))

\* lines 172-174: the score less the mean of the opponent's scores, rounded
adj_score(score, opp_scores) ==
    IF opp_scores = <<>> THEN score
    ELSE round_div(Len(opp_scores) * score - seq_sum(opp_scores),
                   Len(opp_scores))

\* <<horizontal, vertical, rowdata>> of the board after set_state(h)
state_of(wl, h) ==
    CHOOSE val \in { <<h, v, set_rowdata(wl, h, v)>> : v \in {mirror(h)} }
        : TRUE

\* the board is left as it is after the word was played
restore_nothing(saved_state, played_state) == played_state

\* board.set_state(&saved_state), line 170: the rows the board holds after it
restore(saved_state, played_state) == saved_state

(* find_best_scores, lines 157-184: the record pushed for the word s, or   *)
(* the error of sample_scores, once the word is played (tried, leaving the *)
(* board b) and res is what sample_scores returned, if it was called.       *)
best_sampled(h, b, in_endgame, opp_tiles_score, s, tried, res) ==
    LET ours  == in_endgame /\ Len(tried.value) = Len(s.word)
        opp_scores == IF ours THEN <<0 - opp_tiles_score>>
                      ELSE [k \in 1..Len(res.value) |-> res.value[k][1]]
        exit_flag  == IF ours THEN "Our"
                      ELSE IF \E k \in 1..Len(res.value) : res.value[k][2]
                      THEN "Opponent" ELSE "None"
    IN  IF ~ours /\ res.kind # "Ok" THEN [ret |-> res, h |-> b[1]]
        ELSE [ret |-> Ok([x |-> s.x, y |-> s.y, horizontal |-> s.horizontal,
                          word |-> s.word, score |-> s.score,
                          adj_score |-> adj_score(s.score, opp_scores),
                          played |-> tried.value, exit_flag |-> exit_flag]),
              h |-> restore(h, b[1])]

\* find_best_scores, lines 157-165: the word s is played, leaving the board b
best_played(wl, h, b, samples, in_endgame, opp_tiles_score, s, tried) ==
    CHOOSE val \in
        { best_sampled(h, b, in_endgame, opp_tiles_score, s, tried, res) :
            res \in {IF in_endgame /\ Len(tried.value) = Len(s.word)
                     THEN Ok(<<>>)
                     ELSE sample_scores(wl, b[1], b[2], b[3], samples,
                                        s.score, FALSE)} } : TRUE

\* find_best_scores, lines 153-165: the word s was tried
best_tried(wl, h, samples, in_endgame, opp_tiles_score, s, tried) ==
    IF tried.kind # "Ok" THEN [ret |-> tried, h |-> h]
    ELSE CHOOSE val \in
        { best_played(wl, h, b, samples, in_endgame, opp_tiles_score, s,
                      tried) :
            b \in {state_of(wl, write_word(h, s.word, s.x, s.y,
                                           s.horizontal))} } : TRUE

(* find_best_scores, the body of the loop of lines 153-186 for the word s: *)
(* the record pushed, or the error returned, and the state the board is    *)
(* left in by this turn of the loop.                                        *)
best_score(wl, h, samples, in_endgame, opp_tiles_score, s) ==
    CHOOSE val \in
        { best_tried(wl, h, samples, in_endgame, opp_tiles_score, s, tried) :
            tried \in {try_word(h, s.word, s.x, s.y, s.horizontal)} } : TRUE

(* find_best_scores, lines 152-187: the loop over topn, as the value        *)
(* returned, whether set_state or play_word has written the board, the     *)
(* state they left, and the state every turn of the loop left.             *)
best_scores(wl, h, samples, in_endgame, opp_tiles_score, topn) ==
    CHOOSE val \in
        { LET err == first_error([k \in 1..Len(topn) |-> res[k].ret])
          IN  IF err # None
              THEN [ret |-> res[err].ret,
                    written |-> err > 1 \/ res[err].h # h,
                    h |-> res[err].h,
                    turns |-> [k \in 1..err |-> res[k].h]]
              ELSE [ret |-> Ok([k \in 1..Len(topn) |-> res[k].ret.value]),
                    written |-> TRUE, h |-> res[Len(topn)].h,
                    turns |-> [k \in 1..Len(topn) |-> res[k].h]] :
            res \in {[k \in 1..Len(topn) |->
                         best_score(wl, h, samples, in_endgame,
                                    opp_tiles_score, topn[k])]} } : TRUE

(* find_best_scores, lines 121-187: the tiles not seen are known and the   *)
(* words of our rack are sorted.                                            *)
find_best_sorted(wl, h, rack, draws, tiles, sorted) ==
    LET in_endgame == Len(tiles) < 7
        samples    == IF in_endgame THEN <<tiles>> ELSE draws
        opp_tiles_score == IF in_endgame THEN tiles_score(rack) ELSE 0
    IN  IF ~in_endgame /\ Len(sorted) < 20
        THEN [ret |-> Panic, written |-> FALSE, h |-> h, turns |-> <<>>]
        ELSE best_scores(wl, h, samples, in_endgame, opp_tiles_score,
                         IF in_endgame THEN sorted ELSE SubSeq(sorted, 1, 20))

\* find_best_scores, lines 115-187: our words are known
find_best_words(wl, h, rack, tileset, draws, words0) ==
    IF words0 = <<>>
    THEN [ret |-> Ok(<<>>), written |-> FALSE, h |-> h, turns |-> <<>>]
    ELSE CHOOSE val \in
        { find_best_sorted(wl, h, rack, draws, w[1], w[2]) :
            w \in {<<bag_tiles(remaining_tiles(from_tileset(tileset), h,
                                               rack)),
                     sort_by_score(words0)>>} } : TRUE

(* ai::find_best_scores with the racks drawn for the opponent: the value   *)
(* returned, whether set_state or play_word has written the board, and the *)
(* state they left.                                                         *)
find_best_scores(wl, h, v, rd, rack, tileset, draws) ==
    CHOOSE val \in
        { find_best_words(wl, h, rack, tileset, draws, words0) :
            words0 \in {calc_all_word_scores(wl, h, v, rd, rack)} } : TRUE

---------------------------------------------------------------------------
(* The legal characters on their own: get_legal_characters is asked about  *)
(* a drawn run of cells, as Board::calc_rowdata asks it about the word      *)
(* that surrounds a square.                                                 *)

\* the most cells of a drawn run
RunLen == 3
\* what a cell of a drawn run holds: nothing, d, e, f, o or a wildcard D
RunCells == {EMPTY, 4, 5, 6, 15, 68}
\* a word of 15 letters, "dododododododoe"
LongWord == [j \in 1..N |-> IF j = N THEN 5 ELSE IF j % 2 = 1 THEN 4 ELSE 15]
\* the lexicon: do, od, of, doe, ode and the long word
LegalWords == Words \o <<LongWord>>
LegalWL == from_words(LegalWords)
\* the long word with the cell at index i (from 0) empty, or a wildcard
LongRuns ==
    {[LongWord EXCEPT ![i + 1] = c] : i \in {0, 7, N - 1}, c \in {EMPTY, 68}}
        \cup {LongWord}
\* the runs drawn
LegalRuns == UNION {[1..n -> RunCells] : n \in 1..RunLen} \cup LongRuns

InitLegal ==
    /\ wordlist = LegalWL
    /\ horizontal = empty_state
    /\ vertical = empty_state
    /\ rowdata = set_rowdata(LegalWL, empty_state, empty_state)
    /\ save = empty_state
    /\ saveV = empty_state
    /\ saveRowdata = <<>>
    /\ undo = "none"
    /\ call = Idle
    /\ ret = Idle
    /\ nplays = 0
    /\ m_row \in LegalRuns
    /\ m_rowdata = <<>>
    /\ m_letters = <<>>
    /\ m_pos = 0
    /\ m_out = <<>>

\* Wordlist::get_legal_characters, once
GetLegalCharacters ==
    /\ call = Idle
    /\ ret' = Ok(get_legal_characters(wordlist, m_row))
    /\ call' = [op |-> "get_legal_characters", word |-> m_row]
    /\ UNCHANGED matchVars
    /\ UNCHANGED boardVars

NextLegal == GetLegalCharacters
SpecLegal == InitLegal /\ [][NextLegal]_vars

---------------------------------------------------------------------------
(* The start indices on their own: start_indices is asked about a drawn    *)
(* row of a board, extended with the empty square as Wordlist::words       *)
(* extends it, the rowdata of its 15 cells and a drawn maxdist.            *)

\* the most tiles of a drawn row
MaxTiles == 2
\* the sets of at most n positions of a row
Positions(n) == {T \in SUBSET (0..(N - 1)) : Cardinality(T) <= n}
\* the row with the tile d on the positions T and the empty square at its end
StartRow(T) == [j \in 1..DIM |-> IF (j - 1) \in T THEN 4 ELSE EMPTY]
\* the rowdata of a row whose Connected cells are the positions C
StartRowData(C) == [j \in 1..N |-> <<{}, (j - 1) \in C>>]
\* the values of maxdist: no letter, one, a full rack, a letter for every
\* cell of the board, and the 16 letters that Letters can hold
StartDists == {0, 1, 2, 7, N, DIM}

InitStart ==
    /\ wordlist = SmallWL
    /\ horizontal = empty_state
    /\ vertical = empty_state
    /\ rowdata = set_rowdata(SmallWL, empty_state, empty_state)
    /\ save = empty_state
    /\ saveV = empty_state
    /\ saveRowdata = <<>>
    /\ undo = "none"
    /\ call = Idle
    /\ ret = Idle
    /\ nplays = 0
    /\ \E T \in Positions(MaxTiles) : m_row = StartRow(T)
    /\ \E C \in Positions(1) : m_rowdata = StartRowData(C)
    /\ m_letters = <<>>
    /\ m_pos = 0
    /\ m_out = <<>>

\* Wordlist::start_indices, once
StartIndices ==
    /\ call = Idle
    /\ \E maxdist \in StartDists :
          /\ ret' = Ok(start_indices(m_row, m_rowdata, maxdist))
          /\ call' = [op |-> "start_indices", maxdist |-> maxdist]
    /\ UNCHANGED matchVars
    /\ UNCHANGED boardVars

NextStart == StartIndices
SpecStart == InitStart /\ [][NextStart]_vars

---------------------------------------------------------------------------
(* The lexicon on its own: a wordlist is built from a drawn list of words   *)
(* with Wordlist::from_words, and is_word is asked about a drawn word.      *)

\* the most words of a list, and the most labels of one of its words
MaxWords == 2
MaxWordLen == 2
\* the labels the words are made of: a, b
TrieLabels == {1, 2}
\* the label strings of at most n labels
Strings(n) == UNION {[1..k -> TrieLabels] : k \in 0..n}
\* the lists of words a wordlist is built from, repetitions and the empty
\* word among them
WordLists == UNION {[1..k -> Strings(MaxWordLen)] : k \in 0..MaxWords}

InitTrie ==
    /\ \E ws \in WordLists :
          /\ wordlist = from_words(ws)
          /\ call = [op |-> "from_words", words |-> ws]
    /\ ret = Ok(<<>>)
    /\ horizontal = empty_state
    /\ vertical = empty_state
    /\ rowdata = <<[i \in 1..N |-> empty_rowdata], [i \in 1..N |-> empty_rowdata]>>
    /\ save = empty_state
    /\ saveV = empty_state
    /\ saveRowdata = <<>>
    /\ undo = "none"
    /\ nplays = 0
    /\ m_row = <<>> /\ m_rowdata = <<>> /\ m_letters = <<>> /\ m_pos = 0
    /\ m_out = <<>>

\* Wordlist::is_word, once; the call keeps the words the list was built from
IsWord ==
    /\ call.op = "from_words"
    /\ \E word \in Strings(MaxWordLen + 1) :
          /\ ret' = Ok(is_word(wordlist, word))
          /\ call' = [op |-> "is_word", words |-> call.words, word |-> word]
    /\ UNCHANGED boardVars
    /\ UNCHANGED matchVars

NextTrie == IsWord

SpecTrie == InitTrie /\ [][NextTrie]_vars

---------------------------------------------------------------------------
(* The best-move search of ai.rs on a board that was built with a wordlist *)
(* and a state: one call of remaining_tiles, of sample_scores or of        *)
(* find_best_scores.  The tables of the tile sets are drawn: the count of  *)
(* every label.                                                             *)

\* the tile sets: two of each of d, e, f, o; two e, two o and one f;
\* twenty of every letter
SmallTiles == [c \in {4, 5, 6, 15} |-> 2]
LastTiles == [c \in {5, 6, 15} |-> IF c = 6 THEN 1 ELSE 2]
AmpleTiles == [c \in 1..26 |-> 20]
AiTileSets == {SmallTiles, LastTiles, AmpleTiles}
\* the states the call starts on: empty, "do" on the centre, "do" crossed
\* by "of", "Doe" on the centre
AiBoards == { empty_state,
              write_word(empty_state, <<4, 15>>, 7, 7, TRUE),
              write_word(write_word(empty_state, <<4, 15>>, 7, 7, TRUE),
                         <<15, 6>>, 8, 7, FALSE),
              write_word(empty_state, <<68, 15, 5>>, 7, 7, TRUE) }
AiStarts == ({SmallWL} \X AiBoards) \cup {<<TestWL, TEST_STATE>>}
\* the racks: "do", "oe*", "f", "e"
AiRacks == { <<4, 15>>, <<15, 5, 64>>, <<6>>, <<5>> }

\* Board::new, or a board of AiStarts made by with_wordlist and set_state
InitAi ==
    /\ \/ /\ wordlist = EmptyWL
          /\ horizontal = empty_state
          /\ vertical = empty_state
          /\ rowdata = <<[i \in 1..N |-> empty_rowdata],
                         [i \in 1..N |-> empty_rowdata]>>
       \/ /\ \E b \in AiStarts : wordlist = b[1] /\ horizontal = b[2]
          /\ vertical = mirror(horizontal)
          /\ rowdata = set_rowdata(wordlist, horizontal, vertical)
    /\ save = horizontal
    /\ saveV = vertical
    /\ saveRowdata = rowdata
    /\ undo = "saved"
    /\ call = Idle
    /\ ret = Idle
    /\ nplays = 0
    /\ m_row = <<>> /\ m_rowdata = <<>> /\ m_letters = <<>> /\ m_pos = 0
    /\ m_out = <<>>

\* ai::remaining_tiles with the full bag of the tile set, once; the result
\* holds the three bags of test_remaining_letters
AiRemainingTiles ==
    /\ call = Idle
    /\ \E rack \in AiRacks, tileset \in AiTileSets :
          LET bag == from_tileset(tileset)
          IN  /\ ret' = Ok([bag |-> bag,
                            used |-> used_tiles(horizontal, rack),
                            remaining |-> remaining_tiles(bag, horizontal, rack)])
              /\ call' = [op |-> "remaining_tiles", rack |-> rack,
                          tileset |-> tileset]
    /\ UNCHANGED boardVars
    /\ UNCHANGED matchVars

\* the lists of racks evaluated: one rack or two
AiRackLists == {<<r>> : r \in AiRacks} \cup (AiRacks \X AiRacks)
\* the values of our_tile_score
AiTileScores == {0, 3}

\* Board::sample_scores, once
AiSampleScores ==
    /\ call = Idle
    /\ \E racks \in AiRackLists, our_tile_score \in AiTileScores,
          in_endgame \in BOOLEAN :
          /\ ret' = sample_scores(wordlist, horizontal, vertical, rowdata,
                                  racks, our_tile_score, in_endgame)
          /\ call' = [op |-> "sample_scores", racks |-> racks,
                      our_tile_score |-> our_tile_score,
                      in_endgame |-> in_endgame]
    /\ UNCHANGED boardVars
    /\ UNCHANGED matchVars

\* the racks of 7 tiles that may be drawn for the opponent: "ffffffo"
AiSevens == { <<6, 6, 6, 6, 6, 6, 15>> }
\* the racks of AiSevens that can be drawn from the tiles
AiDraws(tiles) ==
    {r \in AiSevens : \A c \in BagCodes : count_of(r, c) <= count_of(tiles, c)}
(* the searches made, as <<state, rack, tile set, nsamples>>: "do" and "f" *)
(* on the empty board with the small tile set, "oe*" on the empty board    *)
(* with the ample one and no or one sample, "oe*" on "Doe" with the tile   *)
(* set that leaves one f                                                   *)
AiCalls ==
    { <<empty_state, <<4, 15>>, SmallTiles, 0>>,
      <<empty_state, <<6>>, SmallTiles, 0>>,
      <<empty_state, <<15, 5, 64>>, AmpleTiles, 0>>,
      <<empty_state, <<15, 5, 64>>, AmpleTiles, 1>>,
      <<write_word(empty_state, <<68, 15, 5>>, 7, 7, TRUE), <<15, 5, 64>>,
        LastTiles, 1>> }

\* ai::find_best_scores, once
AiFindBestScores ==
    /\ call = Idle
    /\ \E c \in AiCalls :
          LET rack     == c[2]
              tileset  == c[3]
              nsamples == c[4]
              tiles    == bag_tiles(remaining_tiles(from_tileset(tileset),
                                                    horizontal, rack))
          IN  /\ horizontal = c[1]
              /\ \E draws \in IF Len(tiles) < 7 THEN {<<>>}
                              ELSE [1..nsamples -> AiDraws(tiles)] :
                  \E r \in {find_best_scores(wordlist, horizontal, vertical,
                                             rowdata, rack, tileset, draws)} :
                        /\ ret' = r.ret
                        /\ IF r.written
                           THEN set_state(r.h)
                           ELSE UNCHANGED <<horizontal, vertical, rowdata>>
                        /\ call' = [op |-> "find_best_scores", rack |-> rack,
                                    tileset |-> tileset, nsamples |-> nsamples,
                                    turns |-> r.turns]
    /\ UNCHANGED <<wordlist, save, saveV, saveRowdata, undo, nplays>>
    /\ UNCHANGED matchVars

NextAi ==
    \/ AiRemainingTiles
    \/ AiSampleScores
    \/ AiFindBestScores

SpecAi == InitAi /\ [][NextAi]_vars

---------------------------------------------------------------------------
(* The properties.                                                          *)

\* the cell of state h that tile k (from 1) of a call's word lands on
CallX(c, k) == IF c.horizontal THEN c.x + k - 1 ELSE c.x
CallY(c, k) == IF c.horizontal THEN c.y ELSE c.y + k - 1
CallCell(h, c, k) == At(At(h, CallY(c, k)), CallX(c, k))
\* every cell of the call's placement lies on the board
Fits(c) ==
    \A k \in 1..Len(c.word) : CallX(c, k) < N /\ CallY(c, k) < N

\* C1: in every reachable board state, after any sequence of set_state and
\* play_word calls (modify true or false, failing ones included),
\* vertical[x][y] = horizontal[y][x] for all 0 <= x, y < 15.
C1_MirrorInvariant ==
    \A x \in 0..(N - 1), y \in 0..(N - 1) :
        At(At(vertical, x), y) = At(At(horizontal, y), x)

\* C2: after the caller saved horizontal(), played one word with modify
\* true and called set_state with the saved state, horizontal, vertical and
\* rowdata (both orientations, every line, LegalSet and Connected of every
\* cell) are what they were before the play.
C2_PlayUndoRoundTrip ==
    undo = "restored" =>
        /\ horizontal = save
        /\ vertical = saveV
        /\ rowdata = saveRowdata

\* C9: play_word and calc_word_points with a word of length 1..15 return
\* TilePlacementError{x, y, horizontal, len} whenever a cell of the
\* placement lies outside the board, for every start (x, y), and so never
\* index a cell outside the board.
C9_PlacementFailure ==
    (/\ call.op \in {"play_word", "calc_word_points"}
     /\ Len(call.word) \in 1..N
     /\ ~Fits(call))
        => ret = TilePlacementError(call.x, call.y, call.horizontal,
                                    Len(call.word))

\* the tiles of the call's word that land on a different tile of state h
Differing(h, c) ==
    {k \in 1..Len(c.word) :
        CallCell(h, c, k) # EMPTY /\ CallCell(h, c, k) # c.word[k]}
\* the tiles of the call's word that land on an empty cell of state h, as
\* letters in the order of the word
UsedLetters(h, c) ==
    LET fresh == SelectSeq([k \in 1..Len(c.word) |-> k],
                           LAMBDA k : CallCell(h, c, k) = EMPTY)
    IN  [i \in 1..Len(fresh) |-> label(c.word[fresh[i]])]

Lexicon == {Words[j] : j \in 1..Len(Words)}
\* the labels of a word's tiles
Labels(w) == [k \in 1..Len(w) |-> label(w[k])]
\* the hits of the matcher call as <<pos, word>>
Hits ==
    IF call.op = "matches" THEN [i \in 1..Len(m_out) |-> <<m_pos, m_out[i]>>]
    ELSE IF call.op = "words" THEN m_out
    ELSE <<>>
\* the cell of the row given to the matcher under tile k (from 1) of a hit
HitCell(hit, k) == At(call.row, hit[1] + k - 1)
\* the tiles of a hit that were placed on empty cells
Placed(hit) == {k \in 1..Len(hit[2]) : HitCell(hit, k) = EMPTY}

\* C3: every word the matcher emits has length >= 2, its labels (wildcard
\* flag stripped) spell a word of the lexicon, it lies within columns
\* pos..14 of the row, and where it covers a tile of the row its tile is
\* that tile.
C3_MatcherSoundFit ==
    \A i \in 1..Len(Hits) :
        LET hit == Hits[i]
            w   == hit[2]
        IN  /\ Len(w) >= 2
            /\ Labels(w) \in Lexicon
            /\ hit[1] + Len(w) <= Len(call.row)
            /\ hit[1] + Len(w) - 1 <= N - 1
            /\ \A k \in 1..Len(w) :
                  HitCell(hit, k) # EMPTY => w[k] = HitCell(hit, k)

\* C3: a word is emitted that runs over a tile of the row up to column 14
C3_Witness ==
    \E i \in 1..Len(Hits) :
        /\ Hits[i][1] + Len(Hits[i][2]) - 1 = N - 1
        /\ \E k \in 1..Len(Hits[i][2]) : HitCell(Hits[i], k) # EMPTY

\* C4: the tiles an emitted word places on empty cells match distinct rack
\* letters one to one: a plain tile the rack letter of its label, a
\* wildcard tile a blank; so no more tiles are placed than the rack holds.
C4_MatcherRackUsage ==
    \A i \in 1..Len(Hits) :
        LET hit == Hits[i]
            w   == hit[2]
            new == Placed(hit)
        IN  /\ Cardinality(new) <= Len(m_letters)
            /\ \E f \in [new -> 1..Len(m_letters)] :
                  /\ \A j, k \in new : j # k => f[j] # f[k]
                  /\ \A k \in new :
                        IF is_wildcard(w[k])
                        THEN m_letters[f[k]] = BLANK
                        ELSE m_letters[f[k]] = w[k]

\* C4: a word is emitted that places a wildcard tile and a plain tile
C4_Witness ==
    \E i \in 1..Len(Hits) :
        /\ \E k \in Placed(Hits[i]) : is_wildcard(Hits[i][2][k])
        /\ \E k \in Placed(Hits[i]) : ~is_wildcard(Hits[i][2][k])

\* C5: every emitted word places at least one tile on an empty cell, and
\* covers a tile of the row or places a tile on a cell whose Connected
\* flag is set.
C5_MatcherAttachment ==
    \A i \in 1..Len(Hits) :
        LET hit == Hits[i]
        IN  /\ Placed(hit) # {}
            /\ \E k \in 1..Len(hit[2]) :
                  \/ HitCell(hit, k) # EMPTY
                  \/ At(m_rowdata, hit[1] + k - 1)[2]

\* C5: a word is emitted that covers no tile of the row, in a row where
\* not every cell is connected
C5_Witness ==
    /\ \E j \in 1..Len(m_rowdata) : ~m_rowdata[j][2]
    /\ \E i \in 1..Len(Hits) :
          \A k \in 1..Len(Hits[i][2]) : HitCell(Hits[i], k) = EMPTY

\* how often v occurs in seq
Count(seq, v) == Cardinality({i \in 1..Len(seq) : seq[i] = v})

\* the placements of the brute-force enumeration on a row: the word lw of
\* the lexicon at pos, its new tiles wildcards where flags says so
Placement(row, pos, lw, flags) ==
    [k \in 1..Len(lw) |->
        IF At(row, pos + k - 1) # EMPTY THEN At(row, pos + k - 1)
        ELSE IF flags[k] THEN lw[k] + IS_WILDCARD ELSE lw[k]]
BruteForce(row, rd, rack) ==
    UNION { UNION { { <<pos, Placement(row, pos, lw, flags)>> :
                        flags \in { fl \in [1..Len(lw) -> BOOLEAN] :
                            LET t   == Placement(row, pos, lw, fl)
                                new == {k \in 1..Len(lw) :
                                          At(row, pos + k - 1) = EMPTY}
                            IN  /\ \A k \in 1..Len(lw) : label(t[k]) = lw[k]
                                /\ \A k \in new :
                                      lw[k] \in At(rd, pos + k - 1)[1]
                                /\ \A l \in 1..(LabelRange - 1) :
                                      Cardinality({k \in new : t[k] = l})
                                          <= Count(rack, l)
                                /\ Cardinality({k \in new : is_wildcard(t[k])})
                                      <= Count(rack, BLANK)
                                /\ new # {}
                                /\ \E k \in 1..Len(lw) :
                                      \/ At(row, pos + k - 1) # EMPTY
                                      \/ At(rd, pos + k - 1)[2] } } :
                    lw \in { l \in Lexicon :
                               /\ Len(l) >= 2
                               /\ pos + Len(l) <= Len(row)
                               /\ (pos + Len(l) = Len(row)
                                     \/ At(row, pos + Len(l)) = EMPTY) } } :
            pos \in { q \in 0..(Len(row) - 1) :
                        q = 0 \/ At(row, q - 1) = EMPTY } }

\* C7: the <<pos, word>> pairs of Wordlist::words are the brute-force set:
\* the placements that start right of an empty cell or at the left edge,
\* end before an empty cell or at the right edge, spell a lexicon word of
\* length >= 2, agree with the tiles of the row, take their new tiles from
\* the rack (a blank for any label, as a wildcard), respect the LegalSet
\* of each cell, place a tile, and touch a tile or a Connected cell.
C7_MatcherComplete ==
    call.op = "words" =>
        {m_out[i] : i \in 1..Len(m_out)}
            = BruteForce(m_row, m_rowdata, m_letters)

\* C7: Wordlist::words finds words at two start columns of a row
C7_Witness ==
    /\ call.op = "words"
    /\ \E i, j \in 1..Len(m_out) : m_out[i][1] # m_out[j][1]

\* the lexicon of the board's wordlist
BoardLexicon ==
    IF wordlist = SmallWL THEN Lexicon
    ELSE IF wordlist = TestWL THEN {TEST_WORDS[j] : j \in 1..Len(TEST_WORDS)}
    ELSE {}
\* the cell tile k (from 1) of a record's word lands on, and the run of
\* tiles it completes in the other orientation
RecX(r, k) == IF r.horizontal THEN r.x + k - 1 ELSE r.x
RecY(r, k) == IF r.horizontal THEN r.y ELSE r.y + k - 1
RecFresh(r, k) == At(At(horizontal, RecY(r, k)), RecX(r, k)) = EMPTY
RecLegalSet(r, k) ==
    IF r.horizontal
    THEN At(At(At(rowdata, 1), r.y), RecX(r, k))[1]
    ELSE At(At(At(rowdata, 0), r.x), RecY(r, k))[1]
CrossingRun(r, k) ==
    LET crow == IF r.horizontal THEN At(vertical, RecX(r, k))
                ELSE At(horizontal, RecY(r, k))
        ci   == IF r.horizontal THEN r.y ELSE r.x
        se   == start_end(crow, ci)
    IN  [p \in 1..(se[2] - se[1]) |->
            IF se[1] + p - 1 = ci THEN label(r.word[k])
            ELSE label(At(crow, se[1] + p - 1))]

\* C6: for every hit of calc_all_word_scores, every newly placed tile has
\* its label in the LegalSet of its cell, and every run of more than one
\* tile that it completes in the other orientation is a word of the
\* lexicon.
C6_CrossWordLegality ==
    call.op = "calc_all_word_scores" =>
        \A i \in 1..Len(ret.value) :
            LET r == ret.value[i]
            IN  \A k \in 1..Len(r.word) :
                    RecFresh(r, k) =>
                        /\ label(r.word[k]) \in RecLegalSet(r, k)
                        /\ Len(CrossingRun(r, k)) > 1
                              => CrossingRun(r, k) \in BoardLexicon

\* C6: a hit places a tile that completes a run in the other orientation
C6_Witness ==
    /\ call.op = "calc_all_word_scores"
    /\ \E i \in 1..Len(ret.value) :
          \E k \in 1..Len(ret.value[i].word) :
              /\ RecFresh(ret.value[i], k)
              /\ Len(CrossingRun(ret.value[i], k)) > 1

\* the hits of the matcher on line i of one orientation, with that line's
\* rowdata
LineHits(hor, i) ==
    words(wordlist, IF hor THEN At(horizontal, i) ELSE At(vertical, i),
          At(At(rowdata, IF hor THEN 1 ELSE 0), i), call.letters)
\* the record of hit j of that line
LineRecord(hor, i, j) ==
    LET hit == LineHits(hor, i)[j]
        x   == IF hor THEN hit[1] ELSE i
        y   == IF hor THEN i ELSE hit[1]
    IN  [x |-> x, y |-> y, horizontal |-> hor, word |-> hit[2],
         score |-> calc_word_points(horizontal, vertical, hit[2], x, y, hor,
                                    TRUE).value]
\* the matcher hits of all 30 lines
AllLineHits ==
    UNION { { <<hor, i, j>> : j \in 1..Len(LineHits(hor, i)) } :
              hor \in BOOLEAN, i \in 0..(N - 1) }
\* the 7 hits of test_calc_all_word_scores as <<x, y, horizontal, word>>
TEST_HITS ==
    { <<13, 0, TRUE, <<1, 6>>>>, <<3, 1, TRUE, <<2, 5>>>>,
      <<3, 1, TRUE, <<2, 5, 12>>>>, <<13, 1, TRUE, <<2, 15>>>>,
      <<2, 2, TRUE, <<2, 1, 18>>>>, <<3, 8, TRUE, <<2, 5, 19>>>>,
      <<8, 6, FALSE, <<2, 15>>>> }
RecKey(r) == <<r.x, r.y, r.horizontal, r.word>>

\* C8: calc_all_word_scores returns one record per matcher hit of the 15
\* rows (x the start column, y the row, horizontal) and of the 15 columns
\* (x the column, y the start row, vertical), found with that line's
\* rowdata and scored with its crossing words; no (x, y, orientation, word)
\* comes twice.  On TEST_STATE with the 11 words and the rack "abel" these
\* are the 7 hits of test_calc_all_word_scores.
C8_BoardEnumeration ==
    call.op = "calc_all_word_scores" =>
        LET res == ret.value
        IN  /\ {res[k] : k \in 1..Len(res)}
                 = {LineRecord(t[1], t[2], t[3]) : t \in AllLineHits}
            /\ Len(res) = Cardinality(AllLineHits)
            /\ \A j, k \in 1..Len(res) :
                  j # k => RecKey(res[j]) # RecKey(res[k])
            /\ (/\ wordlist = TestWL
                /\ horizontal = TEST_STATE
                /\ call.letters = <<1, 2, 5, 12>>)
                  => /\ {RecKey(res[k]) : k \in 1..Len(res)} = TEST_HITS
                     /\ Len(res) = 7

\* C8: the 7 hits on TEST_STATE are returned, rows and a column among them
C8_Witness ==
    /\ call.op = "calc_all_word_scores"
    /\ horizontal = TEST_STATE
    /\ call.letters = <<1, 2, 5, 12>>
    /\ \E j, k \in 1..Len(ret.value) :
          ret.value[j].horizontal /\ ~ret.value[k].horizontal

---------------------------------------------------------------------------
(* Dry runs.                                                               *)

\* what the play_word call c of src/src/board.rs returns on the state h
\* when it is made with modify = true
ModifyingResult(h, c) ==
    IF overruns(Len(c.word), c.x, c.y, c.horizontal)
    THEN TilePlacementError(c.x, c.y, c.horizontal, Len(c.word))
    ELSE legacy_cells(h, c.word, 1, c.x, c.y, c.horizontal, TRUE, <<>>).ret

\* a step that is a play_word call with modify = false
DryRunStep == call = Idle /\ call'.op = "play_word" /\ ~call'.modify

(* C11: play_word(word, x, y, horizontal, modify = false) returns what the *)
(* same call with modify = true would return, and leaves horizontal,       *)
(* vertical and rowdata as they were.                                       *)
C11_DryRun ==
    [][DryRunStep =>
          /\ ret' = ModifyingResult(horizontal, call')
          /\ horizontal' = horizontal
          /\ vertical' = vertical
          /\ rowdata' = rowdata]_vars

---------------------------------------------------------------------------
(* Scores.                                                                  *)

RECURSIVE SeqSum(_)
SeqSum(s) == IF s = <<>> THEN 0 ELSE Head(s) + SeqSum(Tail(s))

\* the first and the last index of the maximal run of tiles of the row
\* that passes through index i, the cell at i counted as a tile
RunLo(row, i) ==
    CHOOSE s \in 0..i :
        /\ \A p \in s..(i - 1) : At(row, p) # EMPTY
        /\ (s = 0 \/ At(row, s - 1) = EMPTY)
RunHi(row, i) ==
    CHOOSE e \in i..(Len(row) - 1) :
        /\ \A p \in (i + 1)..e : At(row, p) # EMPTY
        /\ (e = Len(row) - 1 \/ At(row, e + 1) = EMPTY)

\* tile k (from 1) of the call's word lands on an empty cell of the board
CallFresh(c, k) == CallCell(horizontal, c, k) = EMPTY
\* the line that crosses the call's word at tile k, and the index of the
\* crossing cell in it
CrossLine(c, k) ==
    IF c.horizontal THEN At(vertical, CallX(c, k))
    ELSE At(horizontal, CallY(c, k))
CrossIndex(c) == IF c.horizontal THEN c.y ELSE c.x
\* the crossing word of tile k: the run through its cell with the tile in
CrossWord(c, k) ==
    LET crow == CrossLine(c, k)
        lo   == RunLo(crow, CrossIndex(c))
        hi   == RunHi(crow, CrossIndex(c))
    IN  [p \in 1..(hi - lo + 1) |->
            IF lo + p - 1 = CrossIndex(c) THEN c.word[k]
            ELSE At(crow, lo + p - 1)]
\* calc_word_points of that crossing word at the start of its run, in the
\* other orientation, without crossing words
CrossPoints(c, k) ==
    LET lo == RunLo(CrossLine(c, k), CrossIndex(c))
        cx == IF c.horizontal THEN CallX(c, k) ELSE lo
        cy == IF c.horizontal THEN lo ELSE CallY(c, k)
    IN  calc_word_points(horizontal, vertical, CrossWord(c, k), cx, cy,
                         ~c.horizontal, FALSE).value
\* calc_word_points of the call's word without crossing words
BasePoints(c) ==
    calc_word_points(horizontal, vertical, c.word, c.x, c.y, c.horizontal,
                     FALSE).value
\* a calc_word_points call that fits the board has returned
Scored == call.op = "calc_word_points" /\ Fits(call) /\ ret.kind = "Ok"
\* and it was made with include_crossing_words = true
ScoredCrossing == Scored /\ call.include_crossing_words

(* C12: calc_word_points with include_crossing_words = true equals         *)
(* calc_word_points without them plus, for each newly placed tile whose    *)
(* crossing run with the tile in has more than one cell, calc_word_points  *)
(* of that crossing word at the start of the run in the other orientation  *)
(* without crossing words; tiles already on the board add no crossing word.*)
C12_ScoreDecomposition ==
    ScoredCrossing =>
        ret.value = BasePoints(call)
            + SeqSum([k \in 1..Len(call.word) |->
                         IF CallFresh(call, k) /\ Len(CrossWord(call, k)) > 1
                         THEN CrossPoints(call, k) ELSE 0])

\* C12: a scored word lays one tile that completes a crossing word and
\* covers a tile of the board that stands in a crossing word of its own
C12_Witness ==
    /\ ScoredCrossing
    /\ Differing(horizontal, call) = {}
    /\ \E j, k \in 1..Len(call.word) :
          /\ CallFresh(call, j)
          /\ Len(CrossWord(call, j)) > 1
          /\ CrossPoints(call, j) > 0
          /\ ~CallFresh(call, k)
          /\ Len(CrossWord(call, k)) > 1

RECURSIVE SeqProd(_)
SeqProd(s) == IF s = <<>> THEN 1 ELSE Head(s) * SeqProd(Tail(s))

\* the tiles of the call's word that land on empty cells of the board
NewTiles(c) == {k \in 1..Len(c.word) : CallFresh(c, k)}
\* the value of one word: the points of its tiles, times the letter bonus
\* on the squares that were empty, summed and multiplied by the word bonus
\* of every square that was empty
WordValue(c) ==
    SeqSum([k \in 1..Len(c.word) |->
               IF CallFresh(c, k)
               THEN points(c.word[k]) * letter_bonus(CallY(c, k), CallX(c, k))
               ELSE points(c.word[k])])
    * SeqProd([k \in 1..Len(c.word) |->
                  IF CallFresh(c, k)
                  THEN word_bonus(CallY(c, k), CallX(c, k)) ELSE 1])
\* the crossing word of tile k as a placement of its own
CrossCall(c, k) ==
    LET lo == RunLo(CrossLine(c, k), CrossIndex(c))
    IN  [word |-> CrossWord(c, k),
         x |-> IF c.horizontal THEN CallX(c, k) ELSE lo,
         y |-> IF c.horizontal THEN lo ELSE CallY(c, k),
         horizontal |-> ~c.horizontal]
\* the new tiles of the call that complete a crossing word
Crossers(c) == {k \in NewTiles(c) : Len(CrossWord(c, k)) > 1}
\* the value of the word and of its crossing words, without any bonus for
\* the number of tiles
PlainTotal(c) ==
    WordValue(c)
    + SeqSum([k \in 1..Len(c.word) |->
                 IF k \in Crossers(c) THEN WordValue(CrossCall(c, k)) ELSE 0])
\* "wordfeud"
WORDFEUD == <<23, 15, 18, 4, 6, 5, 21, 4>>

(* C13: the total of calc_word_points holds the 40 points of the bingo     *)
(* once if at least 7 cells of the word were empty on the board and not at *)
(* all otherwise; the crossing words bring no bonus.  "wordfeud" at (7,7)  *)
(* horizontal on the empty board scores 78.                                *)
C13_BingoBonus ==
    ScoredCrossing =>
        /\ ret.value - PlainTotal(call)
              = IF Cardinality(NewTiles(call)) >= 7 THEN 40 ELSE 0
        /\ (/\ horizontal = empty_state
            /\ call.word = WORDFEUD
            /\ call.x = 7 /\ call.y = 7 /\ call.horizontal)
              => ret.value = 78

\* C13: a word that covers a tile of the board and lays exactly 7 new tiles
\* gets the bonus
C13_Witness ==
    /\ ScoredCrossing
    /\ Differing(horizontal, call) = {}
    /\ Cardinality(NewTiles(call)) = 7
    /\ Len(call.word) = 8
    /\ ret.value = PlainTotal(call) + 40

\* C13: a word of 8 tiles that lays only 6 new ones gets no bonus
C13_WitnessBelow ==
    /\ ScoredCrossing
    /\ Len(call.word) = 8
    /\ Cardinality(NewTiles(call)) = 6
    /\ ret.value = PlainTotal(call)

(* C14: the letter bonus and the word bonus of a square count only if the  *)
(* square was empty on the board: calc_word_points without crossing words  *)
(* is the value of the word with the bonus of its empty squares only (and  *)
(* the bingo), and so is the score of every crossing word; a tile on an    *)
(* occupied square counts its points once.                                 *)
C14_PremiumsOnNewSquares ==
    Scored =>
        /\ ~call.include_crossing_words
              => ret.value = WordValue(call)
                    + (IF Cardinality(NewTiles(call)) >= 7 THEN 40 ELSE 0)
        /\ \A k \in Crossers(call) :
              CrossPoints(call, k) = WordValue(CrossCall(call, k))

\* a tile of the call's word with points lies on a tile of the board whose
\* square has a bonus of the kind b ("l" or "w")
OnTakenBonus(c, b) ==
    \E k \in 1..Len(c.word) :
        /\ ~CallFresh(c, k)
        /\ points(c.word[k]) > 0
        /\ grid_cell(CallY(c, k), CallX(c, k)) \in {"2" \o b, "3" \o b}

\* C14: a scored word covers an occupied letter bonus square
C14_Witness ==
    /\ Scored
    /\ ~call.include_crossing_words
    /\ Differing(horizontal, call) = {}
    /\ OnTakenBonus(call, "l")

\* C14: a scored word covers an occupied word bonus square
C14_WitnessWordBonus ==
    /\ Scored
    /\ ~call.include_crossing_words
    /\ Differing(horizontal, call) = {}
    /\ OnTakenBonus(call, "w")

\* C14: a crossing word runs over an occupied bonus square
C14_WitnessCrossing ==
    /\ ScoredCrossing
    /\ Differing(horizontal, call) = {}
    /\ \E k \in Crossers(call) :
          OnTakenBonus(CrossCall(call, k), "l")
              \/ OnTakenBonus(CrossCall(call, k), "w")

---------------------------------------------------------------------------
(* The lexicon.                                                             *)

\* the words of a list as a set
WordSet(ws) == {ws[j] : j \in 1..Len(ws)}
\* w is a proper prefix of v
ProperPrefix(w, v) == Len(w) < Len(v) /\ SubSeq(v, 1, Len(w)) = w

(* C15: for every list of words given to Wordlist::from_words, is_word is  *)
(* true of every word of the list and false of every other label string,   *)
(* proper prefixes and extensions of words among them; the number of       *)
(* terminal nodes, word_count and the number of distinct words are equal.  *)
C15_TrieMembership ==
    call.op = "is_word" =>
        /\ ret.value <=> (call.word \in WordSet(call.words))
        /\ wordlist.word_count = Cardinality(WordSet(call.words))
        /\ Cardinality({i \in 1..Len(wordlist.terminal) : wordlist.terminal[i]})
              = wordlist.word_count

\* C15: is_word refuses a string that is a proper prefix of one word of the
\* list and an extension of another
C15_Witness ==
    /\ call.op = "is_word"
    /\ ~ret.value
    /\ \E v \in WordSet(call.words) : ProperPrefix(call.word, v)
    /\ \E v \in WordSet(call.words) : ProperPrefix(v, call.word)

\* C15: the list holds a word twice
C15_WitnessTwice ==
    /\ call.op = "is_word"
    /\ Cardinality(WordSet(call.words)) < Len(call.words)

\* C15: is_word accepts a word of the list
C15_WitnessMember ==
    /\ call.op = "is_word"
    /\ ret.value
    /\ Len(call.word) > 0

---------------------------------------------------------------------------
(* Connectivity.                                                            *)

\* the Connected flag of cell j of line i of an orientation (1 horizontal,
\* 0 vertical) in rowdata
Connected(o, i, j) == At(At(At(rowdata, o), i), j)[2]
\* the line that crosses line i of orientation o at its cell j
CrossingLine(o, j) == IF o = 1 THEN At(vertical, j) ELSE At(horizontal, j)
\* the maximal run of that crossing line through the cell holds a tile
RunHasTile(o, i, j) ==
    LET crow == CrossingLine(o, j)
    IN  \E p \in RunLo(crow, i)..RunHi(crow, i) : At(crow, p) # EMPTY

(* C16: on an empty board the only cell with the Connected flag, in either *)
(* orientation, is (7,7); on any board, Connected of cell j of line i is   *)
(* true iff the maximal run in the crossing direction through the cell     *)
(* holds at least one tile, or (i, j) = (7, 7).                            *)
C16_ConnectivitySeed ==
    \A o \in {0, 1}, i \in 0..(N - 1), j \in 0..(N - 1) :
        /\ Connected(o, i, j) <=> (RunHasTile(o, i, j) \/ (i = 7 /\ j = 7))
        /\ horizontal = empty_state => (Connected(o, i, j) <=> (i = 7 /\ j = 7))

---------------------------------------------------------------------------
(* The bag.                                                                 *)

(* C17: for every board state and rack and every tile code c, the full bag *)
(* holds as many c as the used tiles (the tiles on the board, a wildcard   *)
(* counted as a blank, and the rack) and the remaining tiles together.     *)
C17_BagAccounting ==
    call.op = "remaining_tiles" =>
        \A c \in BagCodes :
            ret.value.bag[c] = ret.value.used[c] + ret.value.remaining[c]

---------------------------------------------------------------------------
(* The opponent.                                                            *)

\* the replies to a rack on the board: the records of calc_all_word_scores
Replies(rack) ==
    calc_all_word_scores(wordlist, horizontal, vertical, rowdata, rack)
\* the number of cells of a reply that are empty on the board
NewCount(r) == Cardinality({k \in 1..Len(r.word) : RecFresh(r, k)})
\* the reply places the whole rack
PlacesAll(r, rack) == NewCount(r) = Len(rack)
\* the value of a reply to the evaluator when the game is ending
ReplyValue(r, rack, our_tile_score) ==
    IF PlacesAll(r, rack) THEN r.score + our_tile_score ELSE r.score
\* the largest number of a finite non-empty set of numbers
SetMax(S) == CHOOSE m \in S : \A n \in S : n <= m

(* C20: sample_scores with in_endgame = true returns for each rack (m,     *)
(* exit): m the maximum over 0 and, for every reply, its score plus        *)
(* our_tile_score if it places exactly as many new tiles as the rack has   *)
(* and its score otherwise; exit true iff a reply places the whole rack.   *)
(* With in_endgame = false it returns the maximum reply score and false,   *)
(* and (0, false) when there is no reply.                                  *)
C20_EndgameExit ==
    call.op = "sample_scores" =>
        /\ ret.kind = "Ok"
        /\ Len(ret.value) = Len(call.racks)
        /\ \A i \in 1..Len(call.racks) :
              LET rack == call.racks[i]
                  rs   == Replies(rack)
                  idx  == 1..Len(rs)
              IN  IF call.in_endgame
                  THEN /\ ret.value[i][1]
                            = SetMax({0} \cup {ReplyValue(rs[k], rack,
                                          call.our_tile_score) : k \in idx})
                       /\ ret.value[i][2]
                            <=> \E k \in idx : PlacesAll(rs[k], rack)
                  ELSE /\ ret.value[i][1]
                            = SetMax({0} \cup {rs[k].score : k \in idx})
                       /\ ~ret.value[i][2]

\* C20: in the endgame a reply that places the whole rack is not the best
\* reply by its score alone, and is the best with our_tile_score added
C20_Witness ==
    /\ call.op = "sample_scores"
    /\ call.in_endgame
    /\ \E i \in 1..Len(call.racks) :
          LET rack == call.racks[i]
              rs   == Replies(rack)
          IN  /\ ret.value[i][2]
              /\ \E k \in 1..Len(rs) : ~PlacesAll(rs[k], rack)
              /\ ret.value[i][1]
                    > SetMax({0} \cup {rs[k].score : k \in 1..Len(rs)})

\* C20: outside the endgame a rack without a reply gives (0, false)
C20_WitnessNoReply ==
    /\ call.op = "sample_scores"
    /\ ~call.in_endgame
    /\ \E i \in 1..Len(call.racks) :
          Replies(call.racks[i]) = <<>> /\ ret.value[i] = <<0, FALSE>>

---------------------------------------------------------------------------
(* The search for the best word.                                           *)

\* the board find_best_scores was called on: the actions of SpecAi leave
\* save, saveV and saveRowdata as the first state had them
OurWords ==
    sort_by_score(calc_all_word_scores(wordlist, save, saveV, saveRowdata,
                                       call.rack))
\* the tiles not seen at the call, and whether the game is ending
UnseenTiles ==
    bag_tiles(remaining_tiles(from_tileset(call.tileset), save, call.rack))
InEndgame == Len(UnseenTiles) < 7
\* the number of candidates to evaluate
TopN == IF InEndgame \/ Len(OurWords) < 20 THEN Len(OurWords) ELSE 20
\* the result r is the evaluation of the candidate s
ResultOf(r, s) ==
    /\ r.x = s.x /\ r.y = s.y /\ r.horizontal = s.horizontal
    /\ r.word = s.word /\ r.score = s.score

(* C18: with ourWords sorted by score descending, find_best_scores returns *)
(* one result for each of the first topN candidates, in their order, where *)
(* topN is |ourWords| in endgame and min(20, |ourWords|) in midgame: in    *)
(* midgame with 1 <= |ourWords| < 20 it returns |ourWords| results, and    *)
(* with no word it returns the empty list.                                  *)
C18_CandidateCutoff ==
    call.op = "find_best_scores" =>
        /\ ret.kind = "Ok"
        /\ Len(ret.value) = TopN
        /\ \A k \in 1..TopN : ResultOf(ret.value[k], OurWords[k])

\* C18: as C18_CandidateCutoff, but for the midgame with fewer than 20 words
C18_CutoffFrom20 ==
    (call.op = "find_best_scores" /\ (InEndgame \/ Len(OurWords) \notin 1..19))
        => /\ ret.kind = "Ok"
           /\ Len(ret.value) = TopN
           /\ \A k \in 1..TopN : ResultOf(ret.value[k], OurWords[k])

\* C18: a midgame search of more than 20 words has returned 20 results
C18_WitnessTwenty ==
    /\ call.op = "find_best_scores"
    /\ ~InEndgame
    /\ Len(OurWords) > 20
    /\ ret.kind = "Ok"
    /\ Len(ret.value) = 20

\* C18: a midgame search of 1 to 19 words
C18_WitnessFew ==
    /\ call.op = "find_best_scores"
    /\ ~InEndgame
    /\ Len(OurWords) \in 1..19

\* the board after the result's word is played on the state of the call
After(r) ==
    state_of(wordlist, write_word(save, r.word, r.x, r.y, r.horizontal))
\* the replies of the opponent, who holds the tiles not seen, on the board b
OppReplies(b) == calc_all_word_scores(wordlist, b[1], b[2], b[3], UnseenTiles)
\* the reply q places every tile of the opponent on the board b
Empties(b, q) ==
    Cardinality({k \in 1..Len(q.word) : CallCell(b[1], q, k) = EMPTY})
        = Len(UnseenTiles)
\* the points of the tiles the result's word takes from our rack
PlayedPoints(r) ==
    SeqSum([k \in 1..Len(r.word) |->
               IF CallCell(save, r, k) = EMPTY /\ ~is_wildcard(r.word[k])
               THEN points(r.word[k]) ELSE 0])
\* our tile score: the points of our rack, or of what the word leaves of it
OurTileScores(r) ==
    {tiles_score(call.rack), tiles_score(call.rack) - PlayedPoints(r)}
\* the result's word leaves tiles on our rack, and the opponent was searched
GameGoesOn(r) == Len(r.played) < Len(call.rack) /\ r.exit_flag # "Our"

(* C19: in endgame (fewer than 7 tiles not seen), for a candidate of ours  *)
(* that does not end the game, if some reply of the opponent's known rack  *)
(* places that whole rack, the result is tagged exit_flag = Opponent and   *)
(* the reply's score is increased by our tile score before the maximum     *)
(* over the replies is subtracted from our score.                          *)
C19_OpponentExit ==
    (call.op = "find_best_scores" /\ InEndgame /\ ret.kind = "Ok") =>
        \A i \in 1..Len(ret.value) :
            LET r     == ret.value[i]
                b     == After(r)
                qs    == OppReplies(b)
                exits == {k \in 1..Len(qs) : Empties(b, qs[k])}
            IN  (GameGoesOn(r) /\ exits # {}) =>
                    /\ r.exit_flag = "Opponent"
                    /\ \E t \in OurTileScores(r) :
                          r.adj_score = r.score - SetMax({0} \cup
                              {qs[k].score + (IF k \in exits THEN t ELSE 0) :
                                  k \in 1..Len(qs)})

\* C19: an endgame result whose word leaves us tiles, to which the opponent
\* has a reply that places its whole rack
C19_WitnessExit ==
    /\ call.op = "find_best_scores"
    /\ InEndgame
    /\ ret.kind = "Ok"
    /\ \E i \in 1..Len(ret.value) :
          LET r  == ret.value[i]
              b  == After(r)
              qs == OppReplies(b)
          IN  GameGoesOn(r) /\ \E k \in 1..Len(qs) : Empties(b, qs[k])

(* C19: what the search does instead: no result is tagged Opponent, and    *)
(* where the opponent was searched the adjusted score is our score less    *)
(* the best score of a reply, nothing added.                                *)
C19_NeverOpponent ==
    (call.op = "find_best_scores" /\ ret.kind = "Ok") =>
        \A i \in 1..Len(ret.value) :
            LET r  == ret.value[i]
                qs == OppReplies(After(r))
            IN  /\ r.exit_flag # "Opponent"
                /\ (InEndgame /\ r.exit_flag # "Our") =>
                      r.adj_score = r.score - SetMax({0} \cup
                          {qs[k].score : k \in 1..Len(qs)})

\* the number of tiles the result's word puts on the board of the call
NewTilesOf(r) ==
    Cardinality({k \in 1..Len(r.word) : CallCell(save, r, k) = EMPTY})

(* C21: in endgame find_best_scores tags a candidate exit_flag = Our only  *)
(* if playing it places every tile of our rack: the number of newly placed *)
(* tiles equals the number of tiles of the rack.                           *)
C21_OurExit ==
    (call.op = "find_best_scores" /\ ret.kind = "Ok") =>
        \A i \in 1..Len(ret.value) :
            ret.value[i].exit_flag = "Our" =>
                /\ InEndgame
                /\ NewTilesOf(ret.value[i]) = Len(call.rack)
                /\ Len(ret.value[i].played) = Len(call.rack)

(* C21: what the search does instead: a result is tagged Our exactly when  *)
(* the game is ending and its word covers no tile of the board, whatever   *)
(* the rack holds.                                                          *)
C21_OurIsWholeWord ==
    (call.op = "find_best_scores" /\ ret.kind = "Ok") =>
        \A i \in 1..Len(ret.value) :
            ret.value[i].exit_flag = "Our" <=>
                (InEndgame
                    /\ NewTilesOf(ret.value[i]) = Len(ret.value[i].word))

\* C21: an endgame result tagged Our
C21_WitnessOur ==
    /\ call.op = "find_best_scores"
    /\ ret.kind = "Ok"
    /\ \E i \in 1..Len(ret.value) : ret.value[i].exit_flag = "Our"

(* C22: whenever find_best_scores returns, with a result list or with an   *)
(* error, horizontal, vertical and rowdata are equal to their values at    *)
(* the time of the call, and after every candidate the board is back at    *)
(* the saved state before the next candidate is played.                    *)
C22_PlayoutsUndone ==
    call.op = "find_best_scores" =>
        /\ horizontal = save
        /\ vertical = saveV
        /\ rowdata = saveRowdata
        /\ \A k \in 1..Len(call.turns) : call.turns[k] = save

\* C22: a search that has played more than one candidate on the board, one
\* of them on squares that were empty
C22_Witness ==
    /\ call.op = "find_best_scores"
    /\ ret.kind = "Ok"
    /\ Len(call.turns) > 1
    /\ \E i \in 1..Len(ret.value) : NewTilesOf(ret.value[i]) > 0

\* C22: a search on the board of Board::new, whose rowdata no one has set
C22_WitnessNew ==
    /\ call.op = "find_best_scores"
    /\ wordlist = EmptyWL
    /\ \A o \in 1..2, i \in 1..N : rowdata[o][i] = empty_rowdata

---------------------------------------------------------------------------
(* The flattened trie.                                                      *)

\* the nodes of the trie of the words: every prefix of a word, <<>> the root
TrieNodes ==
    UNION {{SubSeq(w, 1, n) : n \in 0..Len(w)} : w \in WordSet(call.words)}
        \cup {<<>>}
\* p comes before q among the strings of one length
LexLess(p, q) ==
    \E i \in 1..Len(p) : p[i] < q[i] /\ \A j \in 1..(i - 1) : p[j] = q[j]
\* the place of the node p when the trie is walked breadth first, the
\* children of a node in ascending order of their labels
FlatIndex(p) ==
    Cardinality({q \in TrieNodes :
                    \/ Len(q) < Len(p)
                    \/ (Len(q) = Len(p) /\ LexLess(q, p))})
\* the labels of the edges that leave the node p
EdgesOf(p) == {k \in TrieLabels : Append(p, k) \in TrieNodes}
\* the indices range_children gives for node n
ChildRange(n) ==
    At(wordlist.nodes, n).start
        .. (At(wordlist.nodes, n).start
              + Cardinality(At(wordlist.nodes, n).labels) - 1)

(* C23: in every Wordlist built from a list of words, each trie node has   *)
(* one index, its place in the breadth-first walk; get(n, k) is Some(c)    *)
(* iff the trie node of n has a child on edge k, and then c is             *)
(* firstChild[n] plus the number of smaller labels of childLabels[n],      *)
(* labels[c] = k and c is the index of that child; the children of n are   *)
(* the indices firstChild[n] .. firstChild[n] + |childLabels[n]| - 1 in    *)
(* ascending order of their labels, and the ranges of two nodes do not     *)
(* overlap.                                                                 *)
C23_ChildLayout ==
    call.op \in {"from_words", "is_word"} =>
        /\ Len(wordlist.nodes) = Cardinality(TrieNodes)
        /\ \A p \in TrieNodes :
              LET n  == FlatIndex(p)
                  nd == At(wordlist.nodes, n)
                  ks == ascending(nd.labels)
                  cs == iter_children(wordlist, n)
              IN  /\ walk(wordlist, 0, p) = n
                  /\ nd.labels = EdgesOf(p)
                  /\ \A k \in TrieLabels \cup {3} :
                        IF k \in EdgesOf(p)
                        THEN /\ get(wordlist, n, k)
                                  = nd.start + Cardinality({j \in nd.labels :
                                                               j < k})
                             /\ At(wordlist.labels, get(wordlist, n, k)) = k
                             /\ get(wordlist, n, k) = FlatIndex(Append(p, k))
                        ELSE get(wordlist, n, k) = None
                  /\ Len(cs) = Len(ks)
                  /\ \A j \in 1..Len(ks) :
                        /\ cs[j] = <<ks[j], nd.start + j - 1>>
                        /\ get(wordlist, n, ks[j]) = nd.start + j - 1
                  /\ \A q \in TrieNodes \ {p} :
                        ChildRange(n) \cap ChildRange(FlatIndex(q)) = {}

\* C23: a wordlist with a node of two children whose second child has a
\* child of its own
C23_Witness ==
    /\ call.op = "from_words"
    /\ \E p \in TrieNodes :
          /\ Cardinality(EdgesOf(p)) = 2
          /\ \E k \in EdgesOf(p) :
                /\ get(wordlist, FlatIndex(p), k)
                      = At(wordlist.nodes, FlatIndex(p)).start + 1
                /\ EdgesOf(Append(p, k)) # {}

\* C23: a wordlist in which two nodes have children
C23_WitnessRanges ==
    /\ call.op = "from_words"
    /\ \E p, q \in TrieNodes :
          p # q /\ ChildRange(FlatIndex(p)) # {} /\ ChildRange(FlatIndex(q)) # {}

---------------------------------------------------------------------------
(* The legal characters.                                                    *)

\* the indices (from 0) of the empty cells of the run
Slots(s) == {p \in 0..(Len(s) - 1) : At(s, p) = EMPTY}
\* the labels of the run with the label l at index i
Filled(s, i, l) == [j \in 1..Len(s) |-> IF j = i + 1 THEN l ELSE s[j] % 32]

(* C24: get_legal_characters(s) returns all_labels when s is a single      *)
(* empty cell; when s is a run of tiles with exactly one empty slot at     *)
(* index i it returns exactly the labels l such that s with l at i is a    *)
(* word of the lexicon, for a slot at the start, in the middle or at the   *)
(* end of the run and for runs of up to 15 cells; when s has no empty slot *)
(* it returns the empty set.                                                *)
C24_LegalCharacters ==
    call.op = "get_legal_characters" =>
        LET s == call.word
        IN  /\ s = <<EMPTY>> => ret.value = wordlist.all_labels
            /\ Slots(s) = {} => ret.value = {}
            /\ (Len(s) > 1 /\ Cardinality(Slots(s)) = 1) =>
                  \A i \in Slots(s) :
                      ret.value = {l \in 1..26 :
                                      Filled(s, i, l) \in WordSet(LegalWords)}

\* C24: a run with its one slot in the middle, for which a label is legal
C24_Witness ==
    /\ call.op = "get_legal_characters"
    /\ Len(call.word) > 2
    /\ \E i \in 1..(Len(call.word) - 2) : Slots(call.word) = {i}
    /\ ret.value # {}

\* C24: the run of 15 cells with its slot at the end, at the start
C24_WitnessLongEnd ==
    /\ call.op = "get_legal_characters"
    /\ Len(call.word) = N
    /\ Slots(call.word) = {N - 1}
    /\ ret.value = {5}
C24_WitnessLongStart ==
    /\ call.op = "get_legal_characters"
    /\ Len(call.word) = N
    /\ Slots(call.word) = {0}
    /\ ret.value = {4}

\* C24: a run with one slot for which no label is legal, the single empty
\* cell, a run without a slot
C24_WitnessNone ==
    /\ call.op = "get_legal_characters"
    /\ Cardinality(Slots(call.word)) = 1
    /\ Len(call.word) > 1
    /\ ret.value = {}
C24_WitnessEmptyCell ==
    /\ call.op = "get_legal_characters"
    /\ call.word = <<EMPTY>>
    /\ ret.value = wordlist.all_labels
C24_WitnessFull ==
    /\ call.op = "get_legal_characters"
    /\ Slots(call.word) = {}

---------------------------------------------------------------------------
(* The start indices.                                                       *)

\* no distance: nothing from the cell to the right is a tile or Connected
Unreachable == 0 - 1
\* d(p): 0 if a tile sits at p, 1 if p is empty and Connected, otherwise
\* one more than d(p + 1)
RECURSIVE Distance(_, _, _)
Distance(row, rd, p) ==
    IF p >= Len(rd) THEN Unreachable
    ELSE IF At(row, p) # EMPTY THEN 0
    ELSE IF At(rd, p)[2] THEN 1
    ELSE LET d == Distance(row, rd, p + 1)
         IN  IF d = Unreachable THEN Unreachable ELSE d + 1
\* a word may start at p: the cell to its left is empty, and p is within
\* maxdist of a tile or a Connected cell
IsStart(row, rd, maxdist, p) ==
    /\ p = 0 \/ At(row, p - 1) = EMPTY
    /\ Distance(row, rd, p) # Unreachable
    /\ Distance(row, rd, p) <= maxdist
\* the positions returned
Returned == {ret.value[k] : k \in 1..Len(ret.value)}

(* C25: start_indices(row, rowdata, maxdist) returns exactly the positions *)
(* p such that the cell at p - 1 is empty (or p = 0) and d(p) <= maxdist,  *)
(* where d(p) is 0 if a tile sits at p, 1 if p is empty and Connected, and *)
(* otherwise 1 + d(p + 1) scanning right to left, unreachable if nothing   *)
(* to the right is a tile or Connected; position 15 is never returned.     *)
C25_StartIndices ==
    call.op = "start_indices" =>
        /\ ret.value
              = ascending({p \in 0..(N - 1) :
                              IsStart(m_row, m_rowdata, call.maxdist, p)})
        /\ N \notin Returned

\* C25: as C25_StartIndices, for every maxdist below DIM
C25_StartsBelowDim ==
    (call.op = "start_indices" /\ call.maxdist < DIM) =>
        /\ ret.value
              = ascending({p \in 0..(N - 1) :
                              IsStart(m_row, m_rowdata, call.maxdist, p)})
        /\ N \notin Returned

\* C25: with maxdist = DIM the sentinel and every position to the right of
\* a tile are returned
C25_AtDim ==
    (call.op = "start_indices" /\ call.maxdist = DIM) =>
        /\ N \in Returned
        /\ \A p \in 1..(N - 1) : At(m_row, p - 1) # EMPTY => p \in Returned

\* C25: a row with a tile and a Connected cell further left, a maxdist that
\* reaches some but not all of the cells left of them, and a position left
\* out because a tile is on its left
C25_Witness ==
    /\ call.op = "start_indices"
    /\ call.maxdist \in 1..7
    /\ \E p \in 0..(N - 1) : At(m_row, p) # EMPTY
    /\ \E p \in 0..(N - 1) : At(m_rowdata, p)[2] /\ At(m_row, p) = EMPTY
    /\ \E p, q \in Returned : At(m_row, p) # EMPTY /\ At(m_row, q) = EMPTY
    /\ \E p \in 0..(N - 1) :
          /\ p \notin Returned
          /\ Distance(m_row, m_rowdata, p) \in 1..call.maxdist
    /\ \E p \in 0..(N - 1) :
          /\ Distance(m_row, m_rowdata, p) # Unreachable
          /\ Distance(m_row, m_rowdata, p) > call.maxdist

\* C25: the sentinel is returned
C25_WitnessSentinel ==
    /\ call.op = "start_indices"
    /\ N \in Returned

---------------------------------------------------------------------------
(* The rack as a multiset.                                                  *)

\* the members of a sequence
Range(s) == {s[k] : k \in 1..Len(s)}
\* no member of the sequence occurs twice in it
NoTwice(s) == \A i, j \in 1..Len(s) : s[i] = s[j] => i = j
\* the rack in every order
Orders(rack) ==
    {[k \in 1..Len(rack) |-> rack[f[k]]] :
        f \in {g \in [1..Len(rack) -> 1..Len(rack)] :
                  \A i, j \in 1..Len(rack) : g[i] = g[j] => i = j}}

(* C26: for every row, rowdata, start position and rack, racks with        *)
(* repeated letters and with two blanks among them, the matcher emits each *)
(* distinct tile sequence at most once, and the set of emitted words is    *)
(* the same for every permutation of the rack.                              *)
C26_RackMultiset ==
    /\ call.op = "matches" =>
          /\ NoTwice(m_out)
          /\ \A q \in Orders(m_letters) :
                Range(matches(wordlist, 0, call.row, m_rowdata, m_pos, q))
                    = Range(m_out)
    /\ call.op = "words" =>
          /\ NoTwice(m_out)
          /\ \A q \in Orders(m_letters) :
                Range(words(wordlist, m_row, m_rowdata, q)) = Range(m_out)

\* C26: a rack that holds a letter twice, one of them in an emitted word
C26_Witness ==
    /\ call.op = "matches"
    /\ \E i, j \in 1..Len(m_letters) :
          /\ i # j
          /\ m_letters[i] = m_letters[j]
          /\ m_letters[i] # BLANK
          /\ \E w \in Range(m_out) :
                \E k \in 1..Len(w) :
                    w[k] = m_letters[i] /\ At(call.row, m_pos + k - 1) = EMPTY

\* C26: a rack of two blanks, both in an emitted word
C26_WitnessBlanks ==
    /\ call.op = "matches"
    /\ Cardinality({i \in 1..Len(m_letters) : m_letters[i] = BLANK}) = 2
    /\ \E w \in Range(m_out) :
          Cardinality({k \in 1..Len(w) :
                          w[k] >= IS_WILDCARD
                              /\ At(call.row, m_pos + k - 1) = EMPTY}) = 2

---------------------------------------------------------------------------
(* Failing plays.                                                           *)

\* a step that is a play_word call with modify = true that returns an error
FailedPlayStep ==
    /\ call = Idle
    /\ call'.op = "play_word"
    /\ call'.modify
    /\ ret'.kind \in {"TilePlacementError", "TileReplaceError"}

(* C27: a play_word(word, x, y, horizontal, modify = true) that returns an *)
(* error, a TileReplaceError met after earlier cells of the word were      *)
(* empty included, leaves horizontal, vertical and rowdata exactly as they *)
(* were before the call.                                                    *)
C27_FailedPlayAtomic ==
    [][FailedPlayStep =>
          /\ horizontal' = horizontal
          /\ vertical' = vertical
          /\ rowdata' = rowdata]_vars

---------------------------------------------------------------------------
(* The rowdata and the state it was computed from.                          *)

(* C28: in every reachable board state, the freshly constructed Board::new *)
(* included, rowdata[o][i] is what calc_rowdata(o, i) computes from the    *)
(* current horizontal, vertical and lexicon, for both orientations and all *)
(* 15 lines.                                                                *)
C28_RowdataFresh ==
    rowdata = set_rowdata(wordlist, horizontal, vertical)

\* the same once the board has been given a wordlist or a state
C28_FreshOnceSet ==
    (wordlist # EmptyWL \/ nplays > 0 \/ undo \in {"restored"})
        => rowdata = set_rowdata(wordlist, horizontal, vertical)

---------------------------------------------------------------------------
(* The start selection of the two crates: Wordlist::words of src/lib picks *)
(* its start positions by distance (start_indices), Wordlist::words of     *)
(* src/src by the first connected cell at or after the position.  Both are *)
(* applied to a line of a board with the rowdata the board computed.       *)

\* Wordlist::words of src/src/wordlist/matches.rs, lines 153-169: the start
\* positions of the extended row, with unwrap_or(N) when no cell at or
\* after pos is connected
legacy_indices(row, rd, maxdist) ==
    ascending({pos \in 0..(Len(row) - 1) :
        /\ ~(pos > 0 /\ ~is_empty(At(row, pos - 1)))
        /\ LET conn == {k \in pos..(Len(rd) - 1) : At(rd, k)[2]}
               dist == IF conn = {} THEN N
                       ELSE (CHOOSE k \in conn : \A j \in conn : k <= j) - pos
           IN  dist <= maxdist})

\* Wordlist::words of src/src/wordlist/matches.rs with maxdist = None
legacy_words(wl, row, rd, letters) ==
    LET row1    == Append(row, EMPTY)
        indices == legacy_indices(row1, rd, Len(letters))
    IN  flat([k \in 1..Len(indices) |->
                LET ms == matches(wl, 0, row1, rd, indices[k], letters)
                IN  [j \in 1..Len(ms) |-> <<indices[k], ms[j]>>]])

\* the boards searched, as <<wordlist, state>>: "do" on the centre, "do"
\* crossed by "of", "do" and "od" five cells apart on line 7, "Doe" in the
\* bottom right corner, and TEST_STATE
PruneBoards ==
    { <<SmallWL, write_word(empty_state, <<4, 15>>, 7, 7, TRUE)>>,
      <<SmallWL, write_word(write_word(empty_state, <<4, 15>>, 7, 7, TRUE),
                            <<15, 6>>, 8, 7, FALSE)>>,
      <<SmallWL, write_word(write_word(empty_state, <<4, 15>>, 2, 7, TRUE),
                            <<15, 4>>, 9, 7, TRUE)>>,
      <<SmallWL, write_word(empty_state, <<68, 15, 5>>, 12, 14, TRUE)>>,
      <<TestWL, TEST_STATE>> }
\* the racks: "e", "do", "oe*", "abel" and the seven tiles "doefode"
PruneRacks == { <<5>>, <<4, 15>>, <<15, 5, 64>>, <<1, 2, 5, 12>>,
                <<4, 15, 5, 6, 15, 4, 5>> }

\* Board::with_wordlist and with_state_from_strings: set_state
InitPrune ==
    /\ \E b \in PruneBoards : wordlist = b[1] /\ horizontal = b[2]
    /\ vertical = mirror(horizontal)
    /\ rowdata = set_rowdata(wordlist, horizontal, vertical)
    /\ save = empty_state
    /\ saveV = empty_state
    /\ saveRowdata = <<>>
    /\ undo = "none"
    /\ call = Idle
    /\ ret = Idle
    /\ nplays = 0
    /\ m_row = <<>> /\ m_rowdata = <<>> /\ m_letters = <<>> /\ m_pos = 0
    /\ m_out = <<>>

(* Wordlist::words on line i of one orientation, as Board::words calls it, *)
(* with what the words of src/src, start_indices and matches at every      *)
(* position give on the same line.                                          *)
WordsOfLine ==
    /\ call = Idle
    /\ \E hor \in BOOLEAN, i \in 0..(N - 1), letters \in PruneRacks :
          LET row == IF hor THEN At(horizontal, i) ELSE At(vertical, i)
              rd  == At(At(rowdata, IF hor THEN 1 ELSE 0), i)
          IN  /\ m_row' = row
              /\ m_rowdata' = rd
              /\ m_letters' = letters
              /\ m_out' = words(wordlist, row, rd, letters)
              /\ call' = [op |-> "words", row |-> Append(row, EMPTY),
                          legacy |-> legacy_words(wordlist, row, rd, letters),
                          indices |-> start_indices(Append(row, EMPTY), rd,
                                                    Len(letters)),
                          every |-> [p \in 1..N |->
                                        matches(wordlist, 0,
                                                Append(row, EMPTY), rd,
                                                p - 1, letters)]]
    /\ ret' = Ok(<<>>)
    /\ UNCHANGED m_pos
    /\ UNCHANGED boardVars

NextPrune == WordsOfLine
SpecPrune == InitPrune /\ [][NextPrune]_vars

\* the positions 0..14 of the line searched whose left neighbour is empty
OpenStarts ==
    {p \in 0..(N - 1) : p = 0 \/ is_empty(At(call.row, p - 1))}
\* the hits of matches run at every such position
EveryHit ==
    UNION {{<<p, call.every[p + 1][j]>> : j \in 1..Len(call.every[p + 1])} :
              p \in OpenStarts}

HitsOfLine == Range(m_out)

C30_WitnessGap ==
    /\ call.op = "words"
    /\ Len(m_row) = N
    /\ \E hit \in HitsOfLine :
          /\ hit[1] + Len(hit[2]) + 1 < N
          /\ ~is_empty(At(m_row, hit[1] + Len(hit[2]) + 1))
    /\ \E hit \in HitsOfLine :
          hit[1] > 1 /\ ~is_empty(At(m_row, hit[1] - 2))

===========================================================================
